---- MODULE Spec2Model ----
(***************************************************************************)
(* Model of jellyfin-db-sync's durable event propagation pipeline:         *)
(*   webhook -> SyncEngine.enqueue_events -> pending_events (SQLite)       *)
(*   worker loop -> _sync_event -> peer REST call -> sync_log / cooldown   *)
(* Times are seconds.  A NULL timestamp is NoTime, an absent path is the   *)
(* empty sequence, an absent optional value is the empty sequence and a    *)
(* present one a one-element sequence.                                     *)
(***************************************************************************)
EXTENDS Integers, Sequences, FiniteSets, Bags, TLC

\* ------------------------------------------------------------------ bounds
MaxTicks == 1         \* number of clock advances
MaxCrashes == 1       \* process crashes
MaxHandlers == 2      \* webhook requests handled concurrently
MaxCalls == 4         \* calls of start_worker and stop_worker
MaxWebhooks == 2      \* webhook requests received
MaxNotFound == 1      \* item_not_found_count a harness row reaches
MaxRetriesBound == 7  \* largest max_retries a harness row is given
MaxRows == 2          \* rows the queue harness inserts
MaxCooldowns == 2     \* cooldown entries the cooldown harness keeps
MaxStream == 3        \* webhooks and clock advances of one stream of PlaybackProgress webhooks

\* ------------------------------------------------------- program constants
SYNC_COOLDOWN_SECONDS == 30
DEFAULT_MAX_RETRIES == 5
BACKOFF_CAP_SECONDS == 300
BACKOFF_BASE_SECONDS == 10
STALE_MINUTES == 5
PENDING_LIMIT == 100
WAITING_LIMIT == 50
MAX_CONCURRENT == 5
PROGRESS_DEBOUNCE_SECONDS == 30

NoTime == -1

\* The clock advances by one of these amounts.
TimeSteps == {30, 300}

\* ------------------------------------------------------------ configuration
\* Config.servers: the test configuration's peers, and the same without "backup"
ThreeServers == <<"wan", "lan", "backup">>
TwoServers == <<"wan", "lan">>

\* Every peer there is
Servers == {"wan", "lan", "backup"}

\* Strings that are matched by prefix are sequences of tokens.
PathNew == <<"/movies", "/new", "/latest.mkv">>
PathOld == <<"/movies", "/test.mkv">>
PathTv == <<"/tv", "/show.mkv">>
PathPhoto == <<"/photos", "/vacation.jpg">>
NoPath == <<>>

\* Config.path_sync_policy
path_sync_policy ==
    << [prefix |-> <<"/movies">>, absent_retry_count |-> 2, retry_delay_seconds |-> 60],
       [prefix |-> <<"/movies", "/new">>, absent_retry_count |-> -1, retry_delay_seconds |-> 300],
       [prefix |-> <<"/tv">>, absent_retry_count |-> 0, retry_delay_seconds |-> 60] >>

\* SyncConfig: the feature flags at their defaults, and a configuration file
\* that sets sync.max_retries to 3
SyncConfig ==
    [playback_progress |-> TRUE, watched_status |-> TRUE, favorites |-> TRUE,
     likes |-> TRUE, play_count |-> TRUE, last_played_date |-> TRUE,
     audio_stream |-> TRUE, subtitle_stream |-> TRUE, max_retries |-> 3,
     dry_run |-> FALSE]

\* Config.sync as load_config read it at startup; nothing writes it afterwards
VARIABLE sync_config

\* ------------------------------------------------------------------ helpers
Min(a, b) == IF a <= b THEN a ELSE b

RECURSIVE Pow2(_)
Pow2(n) == IF n <= 0 THEN 1 ELSE 2 * Pow2(n - 1)

StartsWith(s, p) == Len(p) <= Len(s) /\ SubSeq(s, 1, Len(p)) = p

None == <<>>
Some(v) == <<v>>
IsSome(o) == o # <<>>

\* Config.get_other_servers: [s for s in self.servers if s.name != exclude_name]
IncludingSource(servers, exclude_name) == servers
RECURSIVE get_other_servers(_, _)
get_other_servers(servers, exclude_name) ==
    IF servers = <<>> THEN <<>>
    ELSE (IF Head(servers) # exclude_name THEN <<Head(servers)>> ELSE <<>>)
         \o get_other_servers(Tail(servers), exclude_name)

\* Config.get_path_policy: longest matching prefix; the first of the longest.
\* The result is None or Some(policy).
RECURSIVE PolicyScan(_, _, _, _)
PolicyScan(path, i, matching, max_prefix_len) ==
    IF i > Len(path_sync_policy) THEN matching
    ELSE LET policy == path_sync_policy[i] IN
         IF StartsWith(path, policy.prefix) /\ Len(policy.prefix) > max_prefix_len
         THEN PolicyScan(path, i + 1, Some(policy), Len(policy.prefix))
         ELSE PolicyScan(path, i + 1, matching, max_prefix_len)

FirstMatchPolicy(path) ==
    IF path = <<>> THEN None
    ELSE LET idx == {i \in 1..Len(path_sync_policy) : StartsWith(path, path_sync_policy[i].prefix)} IN
         IF idx = {} THEN None
         ELSE Some(path_sync_policy[CHOOSE i \in idx : \A j \in idx : i <= j])

get_path_policy(path) ==
    IF path = <<>> THEN None ELSE PolicyScan(path, 1, None, 0)

\* An identity key that prefers the TVDB id to the TMDB id
IdentityTvdbFirst(item_path, provider_imdb, provider_tmdb, provider_tvdb) ==
    IF item_path # <<>> THEN <<"path", item_path>>
    ELSE IF provider_imdb # "" THEN <<"imdb", provider_imdb>>
    ELSE IF provider_tvdb # "" THEN <<"tvdb", provider_tvdb>>
    ELSE IF provider_tmdb # "" THEN <<"tmdb", provider_tmdb>>
    ELSE <<>>

\* SyncEngine._get_item_identity_key: <<kind, value>>, or <<>> for "".
get_item_identity_key(item_path, provider_imdb, provider_tmdb, provider_tvdb) ==
    IF item_path # <<>> THEN <<"path", item_path>>
    ELSE IF provider_imdb # "" THEN <<"imdb", provider_imdb>>
    ELSE IF provider_tmdb # "" THEN <<"tmdb", provider_tmdb>>
    ELSE IF provider_tvdb # "" THEN <<"tvdb", provider_tvdb>>
    ELSE <<>>

\* A cooldown key that leaves the event type out
KeyWithoutType(server, username, item_key, event_type) ==
    <<server, username, item_key, "">>

\* The key of a cooldown entry: f"{server}:{username}:{item_key}:{event_type}"
CooldownKey(server, username, item_key, event_type) ==
    <<server, username, item_key, event_type>>

\* ------------------------------------------------------------ the database
\* One row of pending_events as add_pending_event inserts it (schema defaults).
NewRow(id, event_type, source_server, target_server, payload, event_data, t) ==
    [id |-> id, event_type |-> event_type, source_server |-> source_server,
     target_server |-> target_server, username |-> payload.username,
     user_id |-> payload.user_id, item_id |-> payload.item_id,
     item_path |-> payload.item_path, provider_imdb |-> payload.provider_imdb,
     provider_tmdb |-> payload.provider_tmdb, provider_tvdb |-> payload.provider_tvdb,
     event_data |-> event_data, status |-> "pending", retry_count |-> 0,
     max_retries |-> DEFAULT_MAX_RETRIES, last_error |-> "",
     item_not_found_count |-> 0, item_not_found_max |-> 0,
     created_at |-> t, updated_at |-> t, next_retry_at |-> NoTime]

NonTerminal == {"pending", "processing", "waiting_for_item"}

\* A duplicate check that does not look at the target
AnyTargetPending(tbl, event_type, target_server, username, item_id) ==
    \E r \in tbl : /\ r.event_type = event_type
                   /\ r.username = username
                   /\ r.item_id = item_id
                   /\ r.status \in NonTerminal

\* Database.has_pending_event
has_pending_event(tbl, event_type, target_server, username, item_id) ==
    \E r \in tbl : /\ r.event_type = event_type
                   /\ r.target_server = target_server
                   /\ r.username = username
                   /\ r.item_id = item_id
                   /\ r.status \in NonTerminal

\* Database.add_pending_event
add_pending_event(tbl, row) == tbl \cup {row}

\* A fetch that does not look at next_retry_at
EligibleAnyTime(r, status, t) == r.status = status

\* WHERE status = ? AND (next_retry_at IS NULL OR next_retry_at <= now)
Eligible(r, status, t) ==
    r.status = status /\ (r.next_retry_at = NoTime \/ r.next_retry_at <= t)

\* The order in which idx_pending_events_status (status, next_retry_at) yields
\* the rows of one status: NULL first, then by next_retry_at, then by rowid.
IndexBefore(a, b) ==
    \/ a.next_retry_at < b.next_retry_at
    \/ (a.next_retry_at = b.next_retry_at /\ a.id < b.id)

\* ORDER BY created_at ASC LIMIT n.  created_at is CURRENT_TIMESTAMP, whole
\* seconds; the rows of one second come in the order the index scan finds them.
Before(a, b) ==
    a.created_at < b.created_at \/ (a.created_at = b.created_at /\ IndexBefore(a, b))
OldestN(rows, n) == {r \in rows : Cardinality({q \in rows : Before(q, r)}) < n}

\* The list the cursor gives: the ids of the first n rows in that order
RECURSIVE FetchOrder(_, _)
FetchOrder(rows, n) ==
    IF rows = {} \/ n = 0 THEN <<>>
    ELSE LET first == CHOOSE r \in rows : \A q \in rows \ {r} : Before(r, q)
         IN <<first.id>> \o FetchOrder(rows \ {first}, n - 1)

\* Database.get_pending_events
get_pending_events(tbl, limit, t) == OldestN({r \in tbl : Eligible(r, "pending", t)}, limit)

\* Database.get_waiting_for_item_events
get_waiting_for_item_events(tbl, limit, t) ==
    OldestN({r \in tbl : Eligible(r, "waiting_for_item", t)}, limit)

\* Database.mark_event_processing
mark_event_processing(tbl, event_id, t) ==
    LET Cond(r) == r.id = event_id
        Upd(r) == [r EXCEPT !.status = "processing", !.updated_at = t]
    IN {IF Cond(r) THEN Upd(r) ELSE r : r \in tbl}

\* DELETE FROM pending_events WHERE id = ?
DeleteRow(tbl, event_id) == {r \in tbl : r.id # event_id}

\* Database.log_sync: one sync_log entry.  The table has no event id column;
\* the entry carries the row id here to relate it to its event.
LogEntry(r, success, message, synced_value) ==
    [event_id |-> r.id, event_type |-> r.event_type, target_server |-> r.target_server,
     success |-> success, message |-> message, synced_value |-> synced_value]

\* Database.mark_event_failed: the backoff of the retry_count-th failure
BackoffNoCap(retry_count) == BACKOFF_BASE_SECONDS * Pow2(retry_count)
backoff_seconds(retry_count) ==
    Min(BACKOFF_CAP_SECONDS, BACKOFF_BASE_SECONDS * Pow2(retry_count))

\* Database.mark_event_failed: f"Failed after {retry_count} retries: {error}"
FailureMessage(retry_count, error) == <<"Failed after", retry_count, "retries", error>>

\* Database.mark_event_failed: whether this failure is the last one
GivesUpLate(retry_count, max_retries) == retry_count > max_retries
gives_up(retry_count, max_retries) == retry_count >= max_retries

\* A retry branch that parks the row as failed
MarkedAsFailed(tbl, event_id, error, t) ==
    {IF r.id = event_id
     THEN [r EXCEPT !.status = "failed", !.retry_count = r.retry_count + 1,
                    !.last_error = error, !.updated_at = t]
     ELSE r : r \in tbl}

\* Database.mark_event_failed, the retry branch (UPDATE)
mark_event_failed_retry(tbl, event_id, error, t) ==
    LET Cond(r) == r.id = event_id
        Upd(r) == [r EXCEPT !.status = "pending",
                            !.retry_count = r.retry_count + 1,
                            !.last_error = error,
                            !.next_retry_at = t + backoff_seconds(r.retry_count + 1),
                            !.updated_at = t]
    IN {IF Cond(r) THEN Upd(r) ELSE r : r \in tbl}

\* Database.mark_event_waiting_for_item
mark_event_waiting_for_item(tbl, event_id, max_retries, retry_delay_seconds, error_message, t) ==
    LET Cond(r) == r.id = event_id
        Upd(r) == [r EXCEPT !.status = "waiting_for_item",
                            !.item_not_found_count = r.item_not_found_count + 1,
                            !.item_not_found_max = max_retries,
                            !.last_error = error_message,
                            !.next_retry_at = t + retry_delay_seconds,
                            !.updated_at = t]
    IN {IF Cond(r) THEN Upd(r) ELSE r : r \in tbl}

\* A manual retry that does not look at the status
ResetAnyStatus(tbl, event_id, t) ==
    {IF r.id = event_id
     THEN [r EXCEPT !.status = "pending", !.retry_count = 0, !.next_retry_at = NoTime,
                    !.updated_at = t]
     ELSE r : r \in tbl}

\* Database.reset_event_for_retry: cursor.rowcount > 0
reset_event_for_retry_result(tbl, event_id) ==
    \E r \in tbl : r.id = event_id /\ r.status = "failed"

\* A reset of every processing row, whatever its age
ResetStaleAnyAge(tbl, stale_minutes, t) ==
    {IF r.status = "processing" THEN [r EXCEPT !.status = "pending", !.updated_at = t]
     ELSE r : r \in tbl}

\* Database.reset_stale_processing: cursor.rowcount
reset_stale_processing_result(tbl, stale_minutes, t) ==
    Cardinality({r \in tbl : r.status = "processing" /\ r.updated_at < t - 60 * stale_minutes})

\* Database.reset_stale_processing
reset_stale_processing(tbl, stale_minutes, t) ==
    LET Cond(r) == r.status = "processing" /\ r.updated_at < t - 60 * stale_minutes
        Upd(r) == [r EXCEPT !.status = "pending", !.updated_at = t]
    IN {IF Cond(r) THEN Upd(r) ELSE r : r \in tbl}

\* Database.reset_all_processing
ResetAllSkipped(tbl, t) == tbl
ResetAllTouchingWaiting(tbl, t) ==
    LET Cond(r) == r.status \in {"processing", "waiting_for_item"}
        Upd(r) == [r EXCEPT !.status = "pending", !.updated_at = t]
    IN {IF Cond(r) THEN Upd(r) ELSE r : r \in tbl}
reset_all_processing(tbl, t) ==
    LET Cond(r) == r.status = "processing"
        Upd(r) == [r EXCEPT !.status = "pending", !.updated_at = t]
    IN {IF Cond(r) THEN Upd(r) ELSE r : r \in tbl}

\* Database.reset_event_for_retry
reset_event_for_retry(tbl, event_id, t) ==
    LET Cond(r) == r.id = event_id /\ r.status = "failed"
        Upd(r) == [r EXCEPT !.status = "pending", !.retry_count = 0,
                            !.next_retry_at = NoTime, !.updated_at = t]
    IN {IF Cond(r) THEN Upd(r) ELSE r : r \in tbl}

\* ------------------------------------------------------------ webhook input
Users == {"alice"}

\* str.lower() on the user names in use: "Alice" and "alice" name one user
lower(username) == IF username = "Alice" THEN "alice" ELSE username

\* The item and user ids are peer-local.  A peer matches a user name without
\* regard to letter case (JellyfinClient.get_user_by_name), so one user has
\* one id under every spelling.
ItemIdOn(server, path) == <<server, path>>
UserIdOn(server, username) == <<server, lower(username)>>

\* A WebhookPayload (models.py) as /webhook/{server} receives it.
BasePayload(server, username, path) ==
    [event |-> "", username |-> username, user_id |-> UserIdOn(server, username),
     item_id |-> ItemIdOn(server, path), item_path |-> path,
     provider_imdb |-> "", provider_tmdb |-> "", provider_tvdb |-> "",
     playback_position_ticks |-> 0, played_to_completion |-> FALSE,
     is_played |-> None, is_favorite |-> None, likes |-> None, play_count |-> None,
     last_played_date |-> None, audio_stream_index |-> None,
     subtitle_stream_index |-> None, save_reason |-> ""]

\* UserDataSaved webhooks that carry Played
WatchedPayloads(server, paths) ==
    {[BasePayload(server, u, p) EXCEPT !.event = "UserDataSaved", !.is_played = Some(v)] :
        u \in Users, p \in paths, v \in BOOLEAN}

\* The webhooks the pipeline specification draws from
SpecPayloads(server) == WatchedPayloads(server, {PathNew})

\* A debounce that still holds back a webhook exactly one window later
DebounceStrict(last_sync, key, t) ==
    IF key \notin DOMAIN last_sync THEN TRUE
    ELSE t - last_sync[key] > PROGRESS_DEBOUNCE_SECONDS

\* SyncEngine._should_sync_progress
should_sync_progress(last_sync, key, t) ==
    IF key \notin DOMAIN last_sync THEN TRUE
    ELSE t - last_sync[key] >= PROGRESS_DEBOUNCE_SECONDS

\* One parsed record {"event_type": ..., "data": {field: value}}
Ev(event_type, field, value) == [event_type |-> event_type, data |-> <<field, value>>]

\* A record for every field the webhook carries, whatever the feature flag says
OptEvAnyFlag(flag, opt, event_type, field) ==
    IF IsSome(opt) THEN <<Ev(event_type, field, opt[1])>> ELSE <<>>

OptEv(flag, opt, event_type, field) ==
    IF flag /\ IsSome(opt) THEN <<Ev(event_type, field, opt[1])>> ELSE <<>>

\* SyncEngine._parse_webhook_to_event_data: the records, in the code's order
parse_webhook_to_event_data(payload, source_server, last_sync, t) ==
    IF payload.event = "PlaybackStop" /\ payload.played_to_completion
    THEN IF sync_config.watched_status THEN <<Ev("watched", "is_played", TRUE)>> ELSE <<>>
    ELSE IF payload.event = "PlaybackProgress"
    THEN IF /\ sync_config.playback_progress
            /\ payload.playback_position_ticks # 0
            /\ should_sync_progress(last_sync, <<source_server, payload.username, payload.item_id>>, t)
         THEN <<Ev("progress", "position_ticks", payload.playback_position_ticks)>>
         ELSE <<>>
    ELSE IF payload.event = "UserDataSaved"
    THEN IF payload.save_reason = "Import" THEN <<>>
         ELSE OptEv(sync_config.watched_status, payload.is_played, "watched", "is_played")
              \o OptEv(sync_config.favorites, payload.is_favorite, "favorite", "is_favorite")
              \o OptEv(sync_config.likes, payload.likes, "likes", "likes")
              \o OptEv(sync_config.play_count, payload.play_count, "play_count", "play_count")
              \o OptEv(sync_config.last_played_date, payload.last_played_date,
                       "last_played", "last_played_date")
              \o OptEv(sync_config.audio_stream, payload.audio_stream_index,
                       "audio_stream", "audio_stream_index")
              \o OptEv(sync_config.subtitle_stream, payload.subtitle_stream_index,
                       "subtitle_stream", "subtitle_stream_index")
    ELSE <<>>

\* A timestamp that every PlaybackProgress webhook with a position moves
TimestampOnEveryWebhook(payload, source_server, last_sync, t) ==
    LET key == <<source_server, payload.username, payload.item_id>> IN
    IF /\ payload.event = "PlaybackProgress"
       /\ sync_config.playback_progress
       /\ payload.playback_position_ticks # 0
    THEN [k \in DOMAIN last_sync \cup {key} |-> IF k = key THEN t ELSE last_sync[k]]
    ELSE last_sync

\* SyncEngine._update_progress_timestamp, as the parser applies it
progress_timestamps_after(payload, source_server, last_sync, t) ==
    LET key == <<source_server, payload.username, payload.item_id>> IN
    IF \E i \in DOMAIN parse_webhook_to_event_data(payload, source_server, last_sync, t) :
          parse_webhook_to_event_data(payload, source_server, last_sync, t)[i].event_type = "progress"
    THEN [k \in DOMAIN last_sync \cup {key} |-> IF k = key THEN t ELSE last_sync[k]]
    ELSE last_sync

\* The cooldown key of an event of a payload or of a queued row
PayloadKey(server, x, event_type) ==
    CooldownKey(server, x.username,
                get_item_identity_key(x.item_path, x.provider_imdb, x.provider_tmdb, x.provider_tvdb),
                event_type)

\* SyncEngine._is_in_cooldown: its result
is_in_cooldown(cooldowns, server, x, event_type, t) ==
    /\ PayloadKey(server, x, event_type)[3] # <<>>
    /\ PayloadKey(server, x, event_type) \in DOMAIN cooldowns
    /\ ~(t >= cooldowns[PayloadKey(server, x, event_type)])

\* SyncEngine._set_cooldown
set_cooldown(cooldowns, server, x, event_type, t) ==
    LET key == PayloadKey(server, x, event_type) IN
    IF key[3] = <<>> THEN cooldowns
    ELSE [k \in DOMAIN cooldowns \cup {key} |->
            IF k = key THEN t + SYNC_COOLDOWN_SECONDS ELSE cooldowns[k]]

\* SyncEngine._is_in_cooldown: the entry it deletes when it finds it expired
RECURSIVE cooldowns_after_checks(_, _, _, _, _)
cooldowns_after_checks(cooldowns, events, server, payload, t) ==
    IF events = <<>> THEN cooldowns
    ELSE LET key == PayloadKey(server, payload, events[1].event_type)
             checked == IF key[3] # <<>> /\ key \in DOMAIN cooldowns /\ t >= cooldowns[key]
                        THEN [k \in DOMAIN cooldowns \ {key} |-> cooldowns[k]]
                        ELSE cooldowns
         IN cooldowns_after_checks(checked, Tail(events), server, payload, t)

\* SyncEngine._cleanup_expired_cooldowns
expired_keys(cooldowns, t) == {k \in DOMAIN cooldowns : t >= cooldowns[k]}
cleanup_expired_cooldowns(cooldowns, t) ==
    [k \in DOMAIN cooldowns \ expired_keys(cooldowns, t) |-> cooldowns[k]]

\* enqueue_events: the (record, target) pairs of the two nested loops, in order
RECURSIVE FanOut(_, _)
FanOut(events, targets) ==
    IF events = <<>> THEN <<>>
    ELSE [i \in 1..Len(targets) |->
            [event_type |-> events[1].event_type, data |-> events[1].data, target |-> targets[i]]]
         \o FanOut(Tail(events), targets)

\* filter of a sequence of records by the cooldown check
RECURSIVE NotInCooldown(_, _, _, _, _)
NotInCooldown(events, cooldowns, server, payload, t) ==
    IF events = <<>> THEN <<>>
    ELSE (IF is_in_cooldown(cooldowns, server, payload, events[1].event_type, t)
          THEN <<>> ELSE <<events[1]>>)
         \o NotInCooldown(Tail(events), cooldowns, server, payload, t)

\* Database.upsert_user_mapping: UNIQUE(username, server_name)
upsert_user_mapping(mappings, username, server_name, jellyfin_user_id) ==
    {m \in mappings : ~(m.username = username /\ m.server_name = server_name)}
    \cup {[username |-> username, server_name |-> server_name,
           jellyfin_user_id |-> jellyfin_user_id]}

\* Database.get_user_mapping
get_user_mapping(mappings, username, server_name) ==
    {m \in mappings : m.username = username /\ m.server_name = server_name}

\* ------------------------------------------------------------------- peers
\* UserData of one (peer, user, item) as GET /Users/{id}/Items/{id} returns it
PeerKey(server, username, item_path) == <<server, lower(username), item_path>>
PeerPaths == {PathNew, PathOld}
PeerKeys == {PeerKey(s, u, p) : s \in Servers, u \in Users, p \in PeerPaths}

\* What one run of _sync_event meets on the target peer: the peer answers and
\* the mutation goes through, the connection fails, or the item is absent
PeerResponses == {"ok", "error", "no_item"}

\* SyncResult
SyncResult(success, message, synced_value) ==
    [success |-> success, message |-> message, synced_value |-> synced_value]

\* "Waiting for item" in result.message
IsWaitingMessage(message) == message = "Waiting for item import"

\* SyncEngine._handle_item_not_found: the decision (the queue update is the caller's)
handle_item_not_found(event) ==
    LET policy == get_path_policy(event.item_path) IN
    IF policy = None THEN SyncResult(FALSE, "Item not found", None)
    ELSE IF policy[1].absent_retry_count = 0 THEN SyncResult(FALSE, "Item not found", None)
    ELSE LET current_count == event.item_not_found_count + 1
             max_retries == policy[1].absent_retry_count
         IN IF max_retries # -1 /\ current_count >= max_retries
            THEN SyncResult(FALSE, "Item not found (gave up)", None)
            ELSE SyncResult(TRUE, "Waiting for item import", None)

\* SyncEngine._execute_sync for WATCHED: <<success, synced_value, value on the peer after>>
execute_sync_watched(current, desired, mutation_ok) ==
    IF current = desired THEN <<TRUE, Some(<<"played", desired, "already set">>), current>>
    ELSE IF sync_config.dry_run THEN <<TRUE, Some(<<"played", desired>>), current>>
    ELSE IF mutation_ok THEN <<TRUE, Some(<<"played", desired>>), desired>>
    ELSE <<FALSE, None, current>>

\* event_data.get(field): None when the record does not carry the field
EventValue(event_data, field) ==
    IF event_data[1] = field THEN Some(event_data[2]) ELSE None

\* str() of an optional value inside an f-string
Show(opt) == IF opt = None THEN "None" ELSE opt[1]

\* ISO timestamps are <<day, second of the day>>; string comparison is lexicographic
DateGeq(a, b) == a[1] > b[1] \/ (a[1] = b[1] /\ a[2] >= b[2])

\* last_played_date[:10]
DatePart(d) == d[1]

\* SyncEngine._format_ticks: <<hours, minutes, secs>> when hours > 0, else
\* <<minutes, secs>>
format_ticks(position_ticks) ==
    LET seconds == position_ticks \div 10000000
        hours == seconds \div 3600
        remainder == seconds % 3600
        minutes == remainder \div 60
        secs == remainder % 60
    IN IF hours > 0 THEN <<hours, minutes, secs>> ELSE <<minutes, secs>>

\* A smart-sync comparison that skips a PROGRESS event whose position the
\* target already has
SkipsSamePosition(event_type, current_user_data, event_data) ==
    IF event_type = "progress" /\ current_user_data.PlaybackPositionTicks = event_data[2]
    THEN Some(<<"position", format_ticks(event_data[2]), "already set">>) ELSE None

\* SyncEngine._execute_sync, the smart-sync comparison on a non-empty record of
\* the target: Some(synced_value) when no write is needed, None to go on
NeverSkips(event_type, current_user_data, event_data) == None
smart_check(event_type, current_user_data, event_data) ==
    LET desired(field) == EventValue(event_data, field)
        same(name, current, field) ==
            IF current = desired(field)
            THEN Some(<<name, Show(desired(field)), "already set">>) ELSE None
    IN CASE event_type = "watched" ->
              same("played", Some(current_user_data.Played), "is_played")
         [] event_type = "favorite" ->
              same("favorite", Some(current_user_data.IsFavorite), "is_favorite")
         [] event_type = "likes" -> same("likes", current_user_data.Likes, "likes")
         [] event_type = "play_count" ->
              LET current == current_user_data.PlayCount
                  wanted == IF desired("play_count") = None THEN 0 ELSE desired("play_count")[1]
              IN IF current >= wanted
                 THEN Some(<<"play_count", current, "target >= source">>) ELSE None
         [] event_type = "last_played" ->
              LET current == current_user_data.LastPlayedDate
                  wanted == desired("last_played_date")
              IN IF current # None /\ wanted # None /\ DateGeq(current[1], wanted[1])
                 THEN Some(<<"last_played", DatePart(current[1]), "target newer">>) ELSE None
         [] event_type = "audio_stream" ->
              same("audio_stream", current_user_data.AudioStreamIndex, "audio_stream_index")
         [] event_type = "subtitle_stream" ->
              same("subtitle_stream", current_user_data.SubtitleStreamIndex,
                   "subtitle_stream_index")
         [] event_type = "progress" -> None
         [] event_type = "rating" -> same("rating", current_user_data.Rating, "rating")
         [] OTHER -> None

\* One call of the Jellyfin client: the function, the keyword of update_user_data
\* (or ""), the argument (None for none) and the synced_value of a success
ApiCall(func, keyword, arg, synced_value) ==
    [func |-> func, keyword |-> keyword, arg |-> arg, synced_value |-> synced_value]

\* SyncEngine._execute_sync, "determine which API call to make": None when
\* func stays None
sync_call(event_type, event_data) ==
    LET desired(field) == EventValue(event_data, field)
        update(name, field) ==
            Some(ApiCall("update_user_data", field, desired(field),
                         <<name, Show(desired(field))>>))
    IN CASE event_type = "progress" ->
              IF desired("position_ticks") = None THEN None
              ELSE Some(ApiCall("update_playback_progress", "", desired("position_ticks"),
                                <<"position", format_ticks(desired("position_ticks")[1])>>))
         [] event_type = "watched" ->
              IF desired("is_played") = None THEN None
              ELSE Some(ApiCall(IF desired("is_played")[1] THEN "mark_played"
                                ELSE "mark_unplayed",
                                "", None, <<"played", desired("is_played")[1]>>))
         [] event_type = "favorite" ->
              IF desired("is_favorite") = None THEN None
              ELSE Some(ApiCall(IF desired("is_favorite")[1] THEN "add_favorite"
                                ELSE "remove_favorite",
                                "", None, <<"favorite", desired("is_favorite")[1]>>))
         [] event_type = "rating" ->
              IF desired("rating") = None THEN None
              ELSE Some(ApiCall("update_rating", "", desired("rating"),
                                <<"rating", desired("rating")[1]>>))
         [] event_type = "likes" -> update("likes", "likes")
         [] event_type = "play_count" -> update("play_count", "play_count")
         [] event_type = "last_played" ->
              Some(ApiCall("update_user_data", "last_played_date", desired("last_played_date"),
                           <<"last_played",
                             IF desired("last_played_date") = None THEN "None"
                             ELSE DatePart(desired("last_played_date")[1])>>))
         [] event_type = "audio_stream" -> update("audio_stream", "audio_stream_index")
         [] event_type = "subtitle_stream" -> update("subtitle_stream", "subtitle_stream_index")
         [] OTHER -> None

\* What a call that the peer accepts does to the UserData of the item
apply_call(ud, call) ==
    CASE call.func = "update_playback_progress" ->
           [ud EXCEPT !.PlaybackPositionTicks = call.arg[1]]
      [] call.func = "mark_played" -> [ud EXCEPT !.Played = TRUE]
      [] call.func = "mark_unplayed" -> [ud EXCEPT !.Played = FALSE]
      [] call.func = "add_favorite" -> [ud EXCEPT !.IsFavorite = TRUE]
      [] call.func = "remove_favorite" -> [ud EXCEPT !.IsFavorite = FALSE]
      [] call.func = "update_rating" -> [ud EXCEPT !.Likes = Some(call.arg[1] >= 5)]
      [] call.func = "update_user_data" /\ call.arg = None -> ud
      [] call.func = "update_user_data" /\ call.keyword = "play_count" ->
           [ud EXCEPT !.PlayCount = call.arg[1]]
      [] call.func = "update_user_data" /\ call.keyword = "likes" ->
           [ud EXCEPT !.Likes = call.arg]
      [] call.func = "update_user_data" /\ call.keyword = "last_played_date" ->
           [ud EXCEPT !.LastPlayedDate = call.arg]
      [] call.func = "update_user_data" /\ call.keyword = "audio_stream_index" ->
           [ud EXCEPT !.AudioStreamIndex = call.arg]
      [] call.func = "update_user_data" /\ call.keyword = "subtitle_stream_index" ->
           [ud EXCEPT !.SubtitleStreamIndex = call.arg]
      [] OTHER -> ud

\* UserData of an item nobody has touched, as GET /Users/{id}/Items/{id} gives it;
\* a key the peer leaves out is None
FreshUserData ==
    [Played |-> FALSE, IsFavorite |-> FALSE, Likes |-> None, PlayCount |-> 0,
     LastPlayedDate |-> None, AudioStreamIndex |-> None, SubtitleStreamIndex |-> None,
     Rating |-> None, PlaybackPositionTicks |-> 0]

\* The items whose UserData is kept field by field
UserDataKeys == {PeerKey("lan", "alice", PathNew)}

\* ---------------------------------------------------------------- the state
VARIABLES
    now,                \* the clock, in seconds
    ticks,              \* clock advances so far
    crashes,            \* process crashes so far
    webhooks,           \* webhook requests received so far
    running,            \* SyncEngine._running: the process is up and the worker started
    pending_events,     \* table pending_events
    next_id,            \* AUTOINCREMENT of pending_events
    sync_log,           \* table sync_log, a bag of entries
    user_mappings,      \* table user_mappings
    sync_cooldowns,     \* SyncEngine._sync_cooldowns: key -> expiry
    last_progress_sync, \* SyncEngine._last_progress_sync: key -> time
    handlers,           \* the enqueue_events coroutines in flight
    worker_pc,          \* where _worker_loop is
    tasks,              \* the process_one coroutines of the batch in flight
    peer_data,          \* Played of each (peer, user, item)
    api_call,           \* the last Database call of the queue harness
    last_write,         \* history: cooldown key -> time of the last write to the peer
    failures,           \* history: row id -> calls of mark_event_failed on it
    user_data,          \* UserData of each (peer, user, item) the worker reads and writes
    progress_seen,      \* history: debounce key -> the last PlaybackProgress webhook parsed
    worker_tasks,       \* SyncEngine._worker_task, the _worker_loop tasks alive, the callers
    item_path_cache,    \* table item_path_cache: (peer, path) -> item id
    cache_refresh_locks \* client._cache_refresh_locks: peer -> asyncio.Lock

vars == <<now, ticks, crashes, webhooks, running, pending_events, next_id, sync_log,
          user_mappings, sync_cooldowns, last_progress_sync, handlers, worker_pc,
          tasks, peer_data, api_call, last_write, failures, user_data, progress_seen,
                   worker_tasks, item_path_cache, cache_refresh_locks, sync_config>>

EmptyMap == [k \in {} |-> 0]

FreeHandler == [pc |-> "free"]

\* The coroutines that call start_worker and stop_worker
Callers == {1, 2}

\* SyncEngine.__init__: _worker_task is None, no _worker_loop task exists
NoWorkerTasks ==
    [worker_task |-> 0, loops |-> {}, calls |-> 0,
     pc |-> [c \in Callers |-> [at |-> "idle", task |-> 0]]]

\* asyncio.Lock(): not held, nobody waits
FreeLock == [locked |-> FALSE, waiters |-> <<>>]
NoCall == [op |-> "none", id |-> 0, ret |-> 0, flip |-> FALSE]

Row(id) == CHOOSE r \in pending_events : r.id = id
HasRow(id) == \E r \in pending_events : r.id = id

\* The state after construction under the configuration config
InitWith(config) ==
    /\ sync_config = config
    /\ now = 0
    /\ ticks = 0
    /\ crashes = 0
    /\ webhooks = 0
    /\ running = FALSE
    /\ pending_events = {}
    /\ next_id = 1
    /\ sync_log = EmptyBag
    /\ user_mappings = {}
    /\ sync_cooldowns = EmptyMap
    /\ last_progress_sync = EmptyMap
    /\ handlers = [h \in 1..MaxHandlers |-> FreeHandler]
    /\ worker_pc = "sleep"
    /\ tasks = {}
    /\ peer_data = [k \in PeerKeys |-> FALSE]
    /\ api_call = NoCall
    /\ last_write = EmptyMap
    /\ failures = EmptyMap
    /\ user_data = [k \in UserDataKeys |-> FreshUserData]
    /\ progress_seen = EmptyMap
    /\ worker_tasks = NoWorkerTasks
    /\ item_path_cache = {}
    /\ cache_refresh_locks = [s \in Servers |-> FreeLock]

Init == InitWith(SyncConfig)

\* Time passes, up to a number of clock advances.
TickUpTo(limit, d) ==
    /\ ticks < limit
    /\ now' = now + d
    /\ ticks' = ticks + 1
    /\ UNCHANGED <<crashes, webhooks, running, pending_events, next_id, sync_log,
                   user_mappings, sync_cooldowns, last_progress_sync, handlers,
                   worker_pc, tasks, peer_data, api_call, last_write, failures, user_data, progress_seen,
                   worker_tasks, item_path_cache, cache_refresh_locks, sync_config>>

Tick(d) == TickUpTo(MaxTicks, d)

\* SyncEngine.sync_all_users: the mappings of the users of the peers that answer
RECURSIVE sync_all_users(_, _)
sync_all_users(mappings, found) ==
    IF found = {} THEN mappings
    ELSE LET f == CHOOSE x \in found : TRUE
         IN sync_all_users(upsert_user_mapping(mappings, lower(f[2]), f[1],
                                               UserIdOn(f[1], f[2])),
                           found \ {f})

\* main.lifespan up to its yield: sync_all_users, then SyncEngine.start_worker
\* (reset_all_processing, _running, the worker task).  No request is served before.
StartWorker(reachable) ==
    /\ ~running
    /\ user_mappings' = sync_all_users(user_mappings, reachable \X Users)
    /\ pending_events' = reset_all_processing(pending_events, now)
    /\ running' = TRUE
    /\ worker_pc' = "sleep"
    /\ worker_tasks' = [worker_tasks EXCEPT !.worker_task = 1, !.loops = {1}]
    /\ UNCHANGED <<now, ticks, crashes, webhooks, next_id, sync_log,
                   sync_cooldowns, last_progress_sync, handlers, tasks, peer_data,
                   api_call, last_write, failures, user_data, progress_seen,
                   item_path_cache, cache_refresh_locks, sync_config>>

\* The process dies: everything in memory is lost, the SQLite file stays.
Crash ==
    /\ running
    /\ crashes < MaxCrashes
    /\ crashes' = crashes + 1
    /\ running' = FALSE
    /\ sync_cooldowns' = EmptyMap
    /\ last_progress_sync' = EmptyMap
    /\ handlers' = [h \in 1..MaxHandlers |-> FreeHandler]
    /\ worker_pc' = "sleep"
    /\ tasks' = {}
    /\ worker_tasks' = NoWorkerTasks
    /\ cache_refresh_locks' = [s \in Servers |-> FreeLock]
    /\ UNCHANGED <<now, ticks, webhooks, pending_events, next_id, sync_log,
                   user_mappings, peer_data, api_call, last_write, failures, user_data, progress_seen,
                   item_path_cache, sync_config>>

\* ------------------------------------------------------------ webhook intake
\* A slot is idle before its first request and after enqueue_events has returned.
Idle(h) == handlers[h].pc \in {"free", "done"}
LowestFree(h) == Idle(h) /\ \A g \in 1..(h - 1) : ~Idle(g)

\* enqueue_events returns when nothing is left to do: its locals are gone, the
\* counts it returned stay
Settle(hd) ==
    IF hd.todo # <<>> THEN hd
    ELSE [pc |-> "done", source_server |-> hd.source_server, parsed |-> hd.parsed,
          passed |-> hd.passed,
          enqueued |-> hd.enqueued, dups |-> hd.dups, inserted |-> hd.inserted]

\* receive_webhook -> SyncEngine.enqueue_events up to the first has_pending_event:
\* sweep, upsert of the source mapping, parse, cooldown filter, fan-out.
ReceiveWebhookUpTo(limit, h, servers, source_server, payload) ==
    LET swept == cleanup_expired_cooldowns(sync_cooldowns, now)
        parsed == parse_webhook_to_event_data(payload, source_server, last_progress_sync, now)
        events_data == NotInCooldown(parsed, swept, source_server, payload, now)
        todo == FanOut(events_data, get_other_servers(servers, source_server))
    IN /\ running
       /\ webhooks < limit
       /\ LowestFree(h)
       /\ webhooks' = webhooks + 1
       /\ sync_cooldowns' = cooldowns_after_checks(swept, parsed, source_server, payload, now)
       /\ last_progress_sync' =
              progress_timestamps_after(payload, source_server, last_progress_sync, now)
       /\ user_mappings' = upsert_user_mapping(user_mappings, payload.username,
                                               source_server, payload.user_id)
       /\ peer_data' = IF /\ IsSome(payload.is_played)
                          /\ PeerKey(source_server, payload.username, payload.item_path)
                                 \in DOMAIN peer_data
                       THEN [peer_data EXCEPT
                               ![PeerKey(source_server, payload.username, payload.item_path)] =
                                   payload.is_played[1]]
                       ELSE peer_data
       /\ progress_seen' =
              IF payload.event = "PlaybackProgress"
              THEN LET key == <<source_server, payload.username, payload.item_id>>
                       yielded == \E i \in DOMAIN parsed : parsed[i].event_type = "progress"
                       before == IF key \in DOMAIN progress_seen
                                 THEN progress_seen[key]
                                 ELSE [yield_at |-> NoTime, yield_run |-> 0]
                       seen == [n |-> webhooks + 1, at |-> now,
                                ticks |-> payload.playback_position_ticks,
                                yielded |-> yielded,
                                yield_at |-> IF yielded THEN now ELSE before.yield_at,
                                yield_run |-> IF yielded THEN crashes ELSE before.yield_run]
                   IN [k \in DOMAIN progress_seen \cup {key} |->
                          IF k = key THEN seen ELSE progress_seen[k]]
              ELSE progress_seen
       /\ handlers' = [handlers EXCEPT ![h] =
              Settle([pc |-> "check", source_server |-> source_server, payload |-> payload,
                      parsed |-> {PayloadKey(source_server, payload, parsed[i].event_type) :
                                     i \in DOMAIN parsed},
                      passed |-> {PayloadKey(source_server, payload, events_data[i].event_type) :
                                     i \in DOMAIN events_data},
                      todo |-> todo, enqueued |-> 0, dups |-> 0, inserted |-> {}])]
       /\ UNCHANGED <<now, ticks, crashes, running, pending_events, next_id, sync_log,
                      worker_pc, tasks, api_call, last_write, failures, user_data,
                      worker_tasks, item_path_cache, cache_refresh_locks, sync_config>>

ReceiveWebhook(h, servers, source_server, payload) ==
    ReceiveWebhookUpTo(MaxWebhooks, h, servers, source_server, payload)

\* enqueue_events: await db.has_pending_event(...) for the next (record, target)
DedupCheck(h) ==
    LET hd == handlers[h]
        e == hd.todo[1]
        exists == has_pending_event(pending_events, e.event_type, e.target,
                                    hd.payload.username, hd.payload.item_id)
    IN /\ hd.pc = "check"
       /\ handlers' = [handlers EXCEPT ![h] =
              IF exists
              THEN Settle([hd EXCEPT !.todo = Tail(hd.todo), !.dups = hd.dups + 1,
                                     !.pc = "check"])
              ELSE [hd EXCEPT !.pc = "insert"]]
       /\ UNCHANGED <<now, ticks, crashes, webhooks, running, pending_events, next_id,
                      sync_log, user_mappings, sync_cooldowns, last_progress_sync,
                      worker_pc, tasks, peer_data, api_call, last_write, failures, user_data, progress_seen,
                   worker_tasks, item_path_cache, cache_refresh_locks, sync_config>>

\* enqueue_events: await db.add_pending_event(...); enqueued += 1
Insert(h) ==
    LET hd == handlers[h]
        e == hd.todo[1]
    IN /\ hd.pc = "insert"
       /\ pending_events' = add_pending_event(pending_events,
              NewRow(next_id, e.event_type, hd.source_server, e.target, hd.payload, e.data, now))
       /\ next_id' = next_id + 1
       /\ handlers' = [handlers EXCEPT ![h] =
              Settle([hd EXCEPT !.todo = Tail(hd.todo), !.enqueued = hd.enqueued + 1,
                                !.inserted = hd.inserted \cup {<<e.event_type, e.target>>},
                                !.pc = "check"])]
       /\ UNCHANGED <<now, ticks, crashes, webhooks, running, sync_log, user_mappings,
                      sync_cooldowns, last_progress_sync, worker_pc, tasks, peer_data,
                      api_call, last_write, failures, user_data, progress_seen,
                   worker_tasks, item_path_cache, cache_refresh_locks, sync_config>>

\* ---------------------------------------------------------------- the worker
\* One process_one coroutine: the event as fetched, the batch it came from,
\* how far it is and the SyncResult once _sync_event has returned.
NewTask(event, origin) ==
    [event |-> event, origin |-> origin, phase |-> "claimed", wrote |-> FALSE,
     result |-> SyncResult(FALSE, "", None), marked_at |-> NoTime]

RECURSIVE MarkAllProcessing(_, _, _)
MarkAllProcessing(tbl, events, t) ==
    IF events = {} THEN tbl
    ELSE LET e == CHOOSE x \in events : TRUE
         IN MarkAllProcessing(mark_event_processing(tbl, e.id, t), events \ {e}, t)

\* Database.log_sync
log_sync(log, entry) == log (+) SetToBag({entry})

\* A loop that starts its next tick without awaiting the gather of the one before
WorkerWakeNoGather ==
    LET tbl == reset_stale_processing(pending_events, STALE_MINUTES, now)
        events == get_pending_events(tbl, PENDING_LIMIT, now)
    IN /\ running
       /\ pending_events' = MarkAllProcessing(tbl, events, now)
       /\ tasks' = tasks \cup {NewTask(e, "pending") : e \in events}
       /\ worker_pc' = "pending"
       /\ UNCHANGED <<now, ticks, crashes, webhooks, running, next_id, sync_log,
                      user_mappings, sync_cooldowns, last_progress_sync, handlers,
                      peer_data, api_call, last_write, failures, user_data, progress_seen,
                      worker_tasks, item_path_cache, cache_refresh_locks, sync_config>>

\* _worker_loop wakes: reset_stale_processing, then process_pending_events up
\* to its gather (fetch, mark all as processing, start the coroutines)
WorkerWake ==
    LET tbl == reset_stale_processing(pending_events, STALE_MINUTES, now)
        events == get_pending_events(tbl, PENDING_LIMIT, now)
    IN /\ running
       /\ worker_pc = "sleep"
       /\ pending_events' = MarkAllProcessing(tbl, events, now)
       /\ tasks' = {NewTask(e, "pending") : e \in events}
       /\ worker_pc' = "pending"
       /\ UNCHANGED <<now, ticks, crashes, webhooks, running, next_id, sync_log,
                      user_mappings, sync_cooldowns, last_progress_sync, handlers,
                      peer_data, api_call, last_write, failures, user_data, progress_seen,
                   worker_tasks, item_path_cache, cache_refresh_locks, sync_config>>

\* the gather of process_pending_events is over: process_waiting_for_item_events
\* up to its gather
StartWaitingBatch ==
    LET events == get_waiting_for_item_events(pending_events, WAITING_LIMIT, now)
    IN /\ running
       /\ worker_pc = "pending"
       /\ tasks = {}
       /\ pending_events' = MarkAllProcessing(pending_events, events, now)
       /\ tasks' = {NewTask(e, "waiting") : e \in events}
       /\ worker_pc' = "waiting"
       /\ UNCHANGED <<now, ticks, crashes, webhooks, running, next_id, sync_log,
                      user_mappings, sync_cooldowns, last_progress_sync, handlers,
                      peer_data, api_call, last_write, failures, user_data, progress_seen,
                   worker_tasks, item_path_cache, cache_refresh_locks, sync_config>>

\* the second gather is over: asyncio.sleep(worker_interval_seconds)
FinishTick ==
    /\ running
    /\ worker_pc = "waiting"
    /\ tasks = {}
    /\ worker_pc' = "sleep"
    /\ UNCHANGED <<now, ticks, crashes, webhooks, running, pending_events, next_id,
                   sync_log, user_mappings, sync_cooldowns, last_progress_sync,
                   handlers, tasks, peer_data, api_call, last_write, failures, user_data, progress_seen,
                   worker_tasks, item_path_cache, cache_refresh_locks, sync_config>>

\* A semaphore that nobody is ever seen to hold
NoHolders == {}

\* the coroutines inside "async with semaphore"
Holding == {t \in tasks : t.phase # "claimed"}

\* process_one of process_pending_events completes on any success; the one of
\* process_waiting_for_item_events leaves a re-queued event alone
CompletesOnSuccess(origin, message) ==
    origin = "pending" \/ ~IsWaitingMessage(message)

\* The SyncResult of a run of _sync_event that did not reach the mutation
ResultOf(resp, event) ==
    CASE resp = "mutation_failed" -> SyncResult(FALSE, "Sync operation returned false", None)
      [] resp = "no_user" -> SyncResult(FALSE, "User not found", None)
      [] resp = "no_item" -> handle_item_not_found(event)
      [] OTHER -> SyncResult(FALSE, "Connection error", None)

\* _sync_event up to the answer of the target peer (user lookup, item lookup,
\* GET of the user data, the mutation).  An answer other than "ok" changes
\* nothing on the peer, so the step goes on to the next commit on the queue:
\* mark_event_waiting_for_item, or the first commit of mark_event_failed.
TaskPeerCall(t, resp) ==
    LET e == t.event
        key == PeerKey(e.target_server, e.username, e.item_path)
        mapped == get_user_mapping(user_mappings, e.username, e.target_server) # {}
        desired == e.event_data[2]
        ex == execute_sync_watched(peer_data[key], desired, TRUE)
        result == IF resp = "ok" THEN SyncResult(TRUE, "Synced successfully", ex[2])
                  ELSE ResultOf(resp, e)
        policy == get_path_policy(e.item_path)
        r == Row(e.id)
    IN /\ t \in tasks
       /\ t.phase = "claimed"
       /\ Cardinality(Holding) < MAX_CONCURRENT
       /\ resp = "no_user" => ~mapped
       /\ resp = "mutation_failed" => peer_data[key] # desired /\ ~sync_config.dry_run
       /\ user_mappings' =
              IF ~mapped /\ resp \in {"ok", "no_item", "mutation_failed"}
              THEN upsert_user_mapping(user_mappings, e.username, e.target_server,
                                       UserIdOn(e.target_server, e.username))
              ELSE user_mappings
       /\ peer_data' = IF resp = "ok" THEN [peer_data EXCEPT ![key] = ex[3]] ELSE peer_data
       /\ IF resp = "ok"
          THEN /\ tasks' = (tasks \ {t}) \cup
                      {[t EXCEPT !.phase = "called", !.result = result,
                                 !.wrote = (ex[3] # peer_data[key])]}
               /\ UNCHANGED <<pending_events, sync_log>>
          ELSE IF result.success
          THEN /\ pending_events' = mark_event_waiting_for_item(pending_events, e.id,
                      policy[1].absent_retry_count, policy[1].retry_delay_seconds,
                      "Item not found (attempt)", now)
               /\ tasks' = IF CompletesOnSuccess(t.origin, result.message)
                           THEN (tasks \ {t}) \cup
                                {[t EXCEPT !.phase = "result", !.result = result,
                                           !.marked_at = now]}
                           ELSE tasks \ {t}
               /\ UNCHANGED sync_log
          ELSE IF gives_up(r.retry_count + 1, r.max_retries)
          THEN /\ sync_log' = log_sync(sync_log,
                      LogEntry(r, FALSE, FailureMessage(r.retry_count + 1, result.message), None))
               /\ tasks' = (tasks \ {t}) \cup {[t EXCEPT !.phase = "logged", !.result = result]}
               /\ UNCHANGED pending_events
          ELSE /\ pending_events' =
                      mark_event_failed_retry(pending_events, e.id, result.message, now)
               /\ tasks' = tasks \ {t}
               /\ UNCHANGED sync_log
       /\ last_write' =
              IF resp = "ok" /\ ex[3] # peer_data[key]
              THEN LET k == PayloadKey(e.target_server, e, e.event_type)
                   IN [x \in DOMAIN last_write \cup {k} |-> IF x = k THEN now ELSE last_write[x]]
              ELSE last_write
       /\ UNCHANGED <<now, ticks, crashes, webhooks, running, next_id, sync_cooldowns,
                      last_progress_sync, handlers, worker_pc, api_call, failures, user_data, progress_seen,
                   worker_tasks, item_path_cache, cache_refresh_locks, sync_config>>

\* _sync_event resumes after the mutation: _set_cooldown, return; process_one
\* calls mark_event_completed, whose first commit is log_sync
TaskResume(t) ==
    LET e == t.event
    IN /\ t \in tasks
       /\ t.phase = "called"
       /\ sync_cooldowns' = set_cooldown(sync_cooldowns, e.target_server, e, e.event_type, now)
       /\ sync_log' = log_sync(sync_log,
              LogEntry(Row(e.id), TRUE, "Synced successfully", t.result.synced_value))
       /\ tasks' = (tasks \ {t}) \cup {[t EXCEPT !.phase = "logged"]}
       /\ UNCHANGED <<now, ticks, crashes, webhooks, running, pending_events, next_id,
                      user_mappings, last_progress_sync, handlers, worker_pc, peer_data,
                      api_call, last_write, failures, user_data, progress_seen,
                   worker_tasks, item_path_cache, cache_refresh_locks, sync_config>>

\* process_one of process_pending_events after _handle_item_not_found re-queued
\* the event: result.success is true, so mark_event_completed (its log_sync)
TaskMark(t) ==
    /\ t \in tasks
    /\ t.phase = "result"
    /\ sync_log' = log_sync(sync_log,
           LogEntry(Row(t.event.id), TRUE, "Synced successfully", t.result.synced_value))
    /\ tasks' = (tasks \ {t}) \cup {[t EXCEPT !.phase = "logged"]}
    /\ UNCHANGED <<now, ticks, crashes, webhooks, running, pending_events, next_id,
                   user_mappings, sync_cooldowns, last_progress_sync, handlers,
                   worker_pc, peer_data, api_call, last_write, failures, user_data, progress_seen,
                   worker_tasks, item_path_cache, cache_refresh_locks, sync_config>>

\* the DELETE commit of mark_event_completed / mark_event_failed
TaskDelete(t) ==
    /\ t \in tasks
    /\ t.phase = "logged"
    /\ pending_events' = DeleteRow(pending_events, t.event.id)
    /\ tasks' = tasks \ {t}
    /\ UNCHANGED <<now, ticks, crashes, webhooks, running, next_id, sync_log,
                   user_mappings, sync_cooldowns, last_progress_sync, handlers,
                   worker_pc, peer_data, api_call, last_write, failures, user_data, progress_seen,
                   worker_tasks, item_path_cache, cache_refresh_locks, sync_config>>

\* ------------------------------------------------------- the pipeline's steps
WebhookSources == {"wan", "lan"}

Next ==
    \/ \E d \in TimeSteps : Tick(d)
    \/ StartWorker(Servers)
    \/ Crash
    \/ \E h \in 1..MaxHandlers, s \in WebhookSources : \E p \in SpecPayloads(s) :
           ReceiveWebhook(h, TwoServers, s, p)
    \/ \E h \in 1..MaxHandlers : DedupCheck(h)
    \/ \E h \in 1..MaxHandlers : Insert(h)
    \/ WorkerWake
    \/ StartWaitingBatch
    \/ FinishTick
    \/ \E t \in tasks, resp \in PeerResponses : TaskPeerCall(t, resp)
    \/ \E t \in tasks : TaskResume(t)
    \/ \E t \in tasks : TaskMark(t)
    \/ \E t \in tasks : TaskDelete(t)

Spec == Init /\ [][Next]_vars

\* The three-peer configuration, one request at a time, peers that answer
FanOutNext ==
    \/ \E d \in TimeSteps : Tick(d)
    \/ StartWorker(Servers)
    \/ \E s \in WebhookSources : \E p \in SpecPayloads(s) :
           ReceiveWebhook(1, ThreeServers, s, p)
    \/ DedupCheck(1)
    \/ Insert(1)
    \/ WorkerWake
    \/ StartWaitingBatch
    \/ FinishTick
    \/ \E t \in tasks : TaskPeerCall(t, "ok")
    \/ \E t \in tasks : TaskResume(t)
    \/ \E t \in tasks : TaskDelete(t)

FanOutSpec == Init /\ [][FanOutNext]_vars

\* ---------------------------------------------------------- the queue harness
\* A caller of the Database API, one call at a time, as tests/test_queue.py is.
Call(op, id, ret) == [op |-> op, id |-> id, ret |-> ret, flip |-> ~api_call.flip]

QueueFrame == <<ticks, crashes, webhooks, running, next_id, user_mappings, sync_cooldowns,
                last_progress_sync, handlers, worker_pc, tasks, peer_data, last_write, user_data,
                progress_seen,
                   worker_tasks, item_path_cache, cache_refresh_locks, sync_config>>

\* db.add_pending_event(...)
QAdd(payload, target_server) ==
    /\ next_id <= MaxRows
    /\ pending_events' = add_pending_event(pending_events,
           NewRow(next_id, "watched", "wan", target_server, payload,
                  <<"is_played", payload.is_played[1]>>, now))
    /\ next_id' = next_id + 1
    /\ failures' = [x \in DOMAIN failures \cup {next_id} |->
                      IF x = next_id THEN 0 ELSE failures[x]]
    /\ api_call' = Call("add_pending_event", next_id, next_id)
    /\ UNCHANGED <<now, ticks, crashes, webhooks, running, sync_log, user_mappings,
                   sync_cooldowns, last_progress_sync, handlers, worker_pc, tasks,
                   peer_data, last_write, user_data, progress_seen,
                   worker_tasks, item_path_cache, cache_refresh_locks, sync_config>>

\* UPDATE pending_events SET max_retries = ? WHERE id = ? on a row just inserted
QSetMaxRetries(id, m) ==
    /\ HasRow(id)
    /\ Row(id).retry_count = 0 /\ Row(id).status = "pending"
    /\ Row(id).max_retries = DEFAULT_MAX_RETRIES
    /\ pending_events' = {IF r.id = id THEN [r EXCEPT !.max_retries = m] ELSE r :
                             r \in pending_events}
    /\ api_call' = Call("set_max_retries", id, m)
    /\ UNCHANGED <<now, sync_log, failures>>
    /\ UNCHANGED QueueFrame

\* db.get_pending_events() / db.get_waiting_for_item_events(), then
\* db.mark_event_processing(id) on one of the events fetched
QMarkProcessing(id) ==
    /\ \E r \in get_pending_events(pending_events, PENDING_LIMIT, now)
             \cup get_waiting_for_item_events(pending_events, WAITING_LIMIT, now) : r.id = id
    /\ pending_events' = mark_event_processing(pending_events, id, now)
    /\ api_call' = Call("mark_event_processing", id, 0)
    /\ UNCHANGED <<now, sync_log, failures>>
    /\ UNCHANGED QueueFrame

\* db.get_pending_events(limit) / db.get_waiting_for_item_events(limit): the
\* call returns the list of the rows' ids in the order of the cursor
QFetch(status, limit) ==
    /\ api_call' = Call(IF status = "pending" THEN "get_pending_events"
                        ELSE "get_waiting_for_item_events",
                        limit,
                        FetchOrder({r \in pending_events : Eligible(r, status, now)}, limit))
    /\ UNCHANGED <<now, pending_events, sync_log, failures>>
    /\ UNCHANGED QueueFrame

\* db.mark_event_completed(id)
QMarkCompleted(id) ==
    /\ HasRow(id)
    /\ sync_log' = log_sync(sync_log, LogEntry(Row(id), TRUE, "Synced successfully", None))
    /\ pending_events' = DeleteRow(pending_events, id)
    /\ api_call' = Call("mark_event_completed", id, 0)
    /\ UNCHANGED <<now, failures>>
    /\ UNCHANGED QueueFrame

\* db.mark_event_failed(id, error)
QMarkFailed(id, error) ==
    /\ HasRow(id)
    /\ IF gives_up(Row(id).retry_count + 1, Row(id).max_retries)
       THEN /\ sync_log' = log_sync(sync_log,
                    LogEntry(Row(id), FALSE, FailureMessage(Row(id).retry_count + 1, error), None))
            /\ pending_events' = DeleteRow(pending_events, id)
       ELSE /\ pending_events' = mark_event_failed_retry(pending_events, id, error, now)
            /\ UNCHANGED sync_log
    /\ failures' = [failures EXCEPT ![id] = failures[id] + 1]
    /\ api_call' = Call("mark_event_failed", id, 0)
    /\ UNCHANGED now
    /\ UNCHANGED QueueFrame

\* db.mark_event_waiting_for_item(id, max_retries, retry_delay_seconds, message)
QMarkWaiting(id, policy) ==
    /\ HasRow(id)
    /\ Row(id).status = "processing"
    /\ Row(id).item_not_found_count < MaxNotFound
    /\ pending_events' = mark_event_waiting_for_item(pending_events, id,
           policy.absent_retry_count, policy.retry_delay_seconds,
           "Item not found (attempt)", now)
    /\ api_call' = Call("mark_event_waiting_for_item", id, 0)
    /\ UNCHANGED <<now, sync_log, failures>>
    /\ UNCHANGED QueueFrame

\* db.reset_all_processing(): returns the number of rows it reset
QResetAll ==
    /\ pending_events' = reset_all_processing(pending_events, now)
    /\ api_call' = Call("reset_all_processing", 0,
                        Cardinality({r \in pending_events : r.status = "processing"}))
    /\ UNCHANGED <<now, sync_log, failures>>
    /\ UNCHANGED QueueFrame

QueueIds == 1..MaxRows

QueueNext ==
    \/ \E p \in WatchedPayloads("wan", {PathNew}) : p.is_played = Some(TRUE) /\ QAdd(p, "lan")
    \/ \E id \in QueueIds, m \in {2, MaxRetriesBound} : QSetMaxRetries(id, m)
    \/ \E id \in QueueIds : QMarkProcessing(id)
    \/ \E id \in QueueIds : QMarkCompleted(id)
    \/ \E id \in QueueIds : QMarkFailed(id, "Connection error")
    \/ \E id \in QueueIds : QMarkWaiting(id, path_sync_policy[2])
    \/ QResetAll
    \/ \E d \in TimeSteps : Tick(d)

QueueSpec == Init /\ [][QueueNext]_vars

\* A row with status 'failed' in the database file.  No statement of
\* database.py sets that status (mark_event_failed deletes the row it gives
\* up on); the column admits it and get_failed_events, get_failed_count and
\* reset_event_for_retry select on it, so such a row comes from outside.
QExternalFailed(id) ==
    /\ HasRow(id)
    /\ Row(id).status = "pending"
    /\ pending_events' = {IF r.id = id THEN [r EXCEPT !.status = "failed"] ELSE r :
                             r \in pending_events}
    /\ api_call' = Call("set_failed", id, 0)
    /\ UNCHANGED <<now, sync_log, failures>>
    /\ UNCHANGED QueueFrame

\* POST /events/{event_id}/retry: db.reset_event_for_retry(event_id)
QResetForRetry(id) ==
    /\ pending_events' = reset_event_for_retry(pending_events, id, now)
    /\ api_call' = Call("reset_event_for_retry", id,
                        reset_event_for_retry_result(pending_events, id))
    /\ UNCHANGED <<now, sync_log, failures>>
    /\ UNCHANGED QueueFrame

\* The status API's retry beside a caller of the queue API; the ids asked for
\* include one that no row has.  A row fails at most MaxFailures times.
MaxFailures == 2

RetryNext ==
    \/ \E p \in WatchedPayloads("wan", {PathNew}) : p.is_played = Some(TRUE) /\ QAdd(p, "lan")
    \/ \E id \in QueueIds : QMarkProcessing(id)
    \/ \E id \in QueueIds :
           /\ HasRow(id)
           /\ failures[id] < MaxFailures
           /\ QMarkFailed(id, "Connection error")
    \/ \E id \in QueueIds : QMarkWaiting(id, path_sync_policy[2])
    \/ \E id \in QueueIds : QExternalFailed(id)
    \/ \E id \in 1..(MaxRows + 1) : QResetForRetry(id)
    \/ \E d \in TimeSteps : Tick(d)

RetrySpec == Init /\ [][RetryNext]_vars

\* Database.get_failed_count
get_failed_count(tbl) == Cardinality({r \in tbl : r.status = "failed"})

\* Database.get_failed_events: the failed rows, the limit latest by updated_at
get_failed_events(tbl, limit) ==
    LET failed == {r \in tbl : r.status = "failed"}
    IN IF Cardinality(failed) <= limit THEN failed
       ELSE CHOOSE rows \in SUBSET failed :
               /\ Cardinality(rows) = limit
               /\ \A a \in rows, b \in failed \ rows : a.updated_at >= b.updated_at

\* GET /status: db.get_failed_count()
QGetFailedCount ==
    /\ api_call' = Call("get_failed_count", 0, get_failed_count(pending_events))
    /\ UNCHANGED <<now, pending_events, sync_log, failures>>
    /\ UNCHANGED QueueFrame

\* GET /events/failed: db.get_failed_events(limit); the number of rows returned
QGetFailedEvents(limit) ==
    /\ api_call' = Call("get_failed_events", limit,
                        Cardinality(get_failed_events(pending_events, limit)))
    /\ UNCHANGED <<now, pending_events, sync_log, failures>>
    /\ UNCHANGED QueueFrame

\* db.reset_stale_processing(stale_minutes): returns the number of rows it reset
QResetStale(stale_minutes) ==
    /\ pending_events' = reset_stale_processing(pending_events, stale_minutes, now)
    /\ api_call' = Call("reset_stale_processing", stale_minutes,
                        reset_stale_processing_result(pending_events, stale_minutes, now))
    /\ UNCHANGED <<now, sync_log, failures>>
    /\ UNCHANGED QueueFrame

\* The ages asked for: any processing row, one minute, the worker's five
StaleMinutes == {0, 1, STALE_MINUTES}

\* A caller that resets stale rows, beside rows that are pending, processing
\* and waiting_for_item, before and after the clock advances
StaleNext ==
    \/ \E p \in WatchedPayloads("wan", {PathNew}) : p.is_played = Some(TRUE) /\ QAdd(p, "lan")
    \/ \E id \in QueueIds : QMarkProcessing(id)
    \/ \E id \in QueueIds : QMarkFailed(id, "Connection error")
    \/ \E id \in QueueIds : QMarkWaiting(id, path_sync_policy[2])
    \/ \E m \in StaleMinutes : QResetStale(m)
    \/ \E d \in TimeSteps : Tick(d)

StaleSpec == Init /\ [][StaleNext]_vars

\* A caller that also fetches, with limits that the two rows can exceed
FetchLimits == {1, 2}

FetchNext ==
    \/ \E p \in WatchedPayloads("wan", {PathNew}) : p.is_played = Some(TRUE) /\ QAdd(p, "lan")
    \/ \E status \in {"pending", "waiting_for_item"}, limit \in FetchLimits :
           QFetch(status, limit)
    \/ \E id \in QueueIds : QMarkProcessing(id)
    \/ \E id \in QueueIds : QMarkFailed(id, "Connection error")
    \/ \E id \in QueueIds : QMarkWaiting(id, path_sync_policy[2])
    \/ QResetAll
    \/ \E d \in TimeSteps : Tick(d)

FetchSpec == Init /\ [][FetchNext]_vars

\* The pipeline with one request at a time from one peer, and the scheduling
\* the event loop gives: a coroutine that can run does run, the worker task
\* keeps looping, a supervisor restarts the process after a crash.
RecoveryNext ==
    \/ \E d \in TimeSteps : Tick(d)
    \/ StartWorker(Servers)
    \/ Crash
    \/ \E p \in SpecPayloads("wan") : ReceiveWebhook(1, TwoServers, "wan", p)
    \/ DedupCheck(1)
    \/ Insert(1)
    \/ WorkerWake
    \/ StartWaitingBatch
    \/ FinishTick
    \/ \E t \in tasks, resp \in PeerResponses : TaskPeerCall(t, resp)
    \/ \E t \in tasks : TaskResume(t)
    \/ \E t \in tasks : TaskMark(t)
    \/ \E t \in tasks : TaskDelete(t)

RecoveryFairness ==
    /\ WF_vars(StartWorker(Servers))
    /\ WF_vars(WorkerWake)
    /\ WF_vars(StartWaitingBatch)
    /\ WF_vars(FinishTick)
    /\ WF_vars(\E t \in tasks, resp \in PeerResponses : TaskPeerCall(t, resp))
    /\ WF_vars(\E t \in tasks : TaskResume(t))
    /\ WF_vars(\E t \in tasks : TaskMark(t))
    /\ WF_vars(\E t \in tasks : TaskDelete(t))

RecoverySpec == Init /\ [][RecoveryNext]_vars /\ RecoveryFairness

\* One emitting peer, peers that answer with the user and the item present
SingleSourceNext ==
    \/ \E d \in TimeSteps : Tick(d)
    \/ StartWorker(Servers)
    \/ \E h \in 1..MaxHandlers : \E p \in SpecPayloads("wan") :
           ReceiveWebhook(h, ThreeServers, "wan", p)
    \/ \E h \in 1..MaxHandlers : DedupCheck(h)
    \/ \E h \in 1..MaxHandlers : Insert(h)
    \/ WorkerWake
    \/ StartWaitingBatch
    \/ FinishTick
    \/ \E t \in tasks : TaskPeerCall(t, "ok")
    \/ \E t \in tasks : TaskResume(t)
    \/ \E t \in tasks : TaskDelete(t)

SingleSourceSpec == Init /\ [][SingleSourceNext]_vars

\* ------------------------------------------------- _execute_sync, step by step
\* A process_one coroutine inside _execute_sync: what get_user_data gave it
\* ("data", "empty" or "error"), the record it read, and the call it is to make
ExecTask(t, phase, got, seen, call, result) ==
    [event |-> t.event, origin |-> t.origin, phase |-> phase, wrote |-> t.wrote,
     result |-> result, marked_at |-> t.marked_at, got |-> got, seen |-> seen, call |-> call]

\* process_one: result.success is false, so Database.mark_event_failed up to
\* its first commit
FailTask(t, result) ==
    LET r == Row(t.event.id) IN
    IF gives_up(r.retry_count + 1, r.max_retries)
    THEN /\ sync_log' = log_sync(sync_log,
                LogEntry(r, FALSE, FailureMessage(r.retry_count + 1, result.message), None))
         /\ tasks' = (tasks \ {t}) \cup
                {[event |-> t.event, origin |-> t.origin, phase |-> "logged",
                  wrote |-> t.wrote, result |-> result, marked_at |-> t.marked_at]}
         /\ UNCHANGED pending_events
    ELSE /\ pending_events' = mark_event_failed_retry(pending_events, t.event.id,
                                                      result.message, now)
         /\ tasks' = tasks \ {t}
         /\ UNCHANGED sync_log

\* The events to one target item: the records a webhook can carry, and ratings
ExecEvents ==
    {Ev("watched", "is_played", v) : v \in BOOLEAN}
    \cup {Ev("favorite", "is_favorite", v) : v \in BOOLEAN}
    \cup {Ev("likes", "likes", v) : v \in BOOLEAN}
    \cup {Ev("rating", "rating", v) : v \in {3, 7}}
    \cup {Ev("play_count", "play_count", v) : v \in {1, 2}}
    \cup {Ev("last_played", "last_played_date", <<v, 0>>) : v \in {1, 2}}
    \cup {Ev("audio_stream", "audio_stream_index", v) : v \in {1, 2}}
    \cup {Ev("subtitle_stream", "subtitle_stream_index", v) : v \in {1, 2}}

\* enqueue_events for one record and the target lan: has_pending_event, then
\* add_pending_event
ExecAdd(source_server, ev) ==
    LET payload == BasePayload(source_server, "alice", PathNew) IN
    /\ running
    /\ next_id <= MaxRows
    /\ ~has_pending_event(pending_events, ev.event_type, "lan", payload.username,
                          payload.item_id)
    /\ pending_events' = add_pending_event(pending_events,
           NewRow(next_id, ev.event_type, source_server, "lan", payload, ev.data, now))
    /\ next_id' = next_id + 1
    /\ UNCHANGED <<now, ticks, crashes, webhooks, running, sync_log, user_mappings,
                   sync_cooldowns, last_progress_sync, handlers, worker_pc, tasks,
                   peer_data, api_call, last_write, failures, user_data, progress_seen,
                   worker_tasks, item_path_cache, cache_refresh_locks, sync_config>>

\* A configuration whose dry_run is not looked at
NeverDry(config) == FALSE

\* _execute_sync: "if self.config.sync.dry_run", once the call is determined
dry_run_returns(config) == config.dry_run

\* _sync_event up to the answer of get_user_data in _execute_sync, and on to the
\* next await: the smart-sync return, no call to make, dry run, or the call
ExecGetUserData(t, got) ==
    LET e == t.event
        key == PeerKey(e.target_server, e.username, e.item_path)
        skip == IF got = "data" THEN smart_check(e.event_type, user_data[key], e.event_data)
                ELSE None
        call == sync_call(e.event_type, e.event_data)
        seen == IF got = "data" THEN Some(user_data[key]) ELSE None
    IN /\ t \in tasks
       /\ t.phase = "claimed"
       /\ Cardinality(Holding) < MAX_CONCURRENT
       /\ key \in UserDataKeys
       /\ get_user_mapping(user_mappings, e.username, e.target_server) # {}
       /\ IF skip # None
          THEN /\ tasks' = (tasks \ {t}) \cup
                      {ExecTask(t, "called", got, seen, None,
                                SyncResult(TRUE, "Synced successfully", skip))}
               /\ UNCHANGED <<pending_events, sync_log>>
          ELSE IF call = None
          THEN FailTask(t, SyncResult(FALSE, "Sync operation returned false", None))
          ELSE IF dry_run_returns(sync_config)
          THEN /\ tasks' = (tasks \ {t}) \cup
                      {ExecTask(t, "called", got, seen, None,
                                SyncResult(TRUE, "Synced successfully",
                                           Some(call[1].synced_value)))}
               /\ UNCHANGED <<pending_events, sync_log>>
          ELSE /\ tasks' = (tasks \ {t}) \cup
                      {ExecTask(t, "mutate", got, seen, call, t.result)}
               /\ UNCHANGED <<pending_events, sync_log>>
       /\ UNCHANGED <<now, ticks, crashes, webhooks, running, next_id, user_mappings,
                      sync_cooldowns, last_progress_sync, handlers, worker_pc, peer_data,
                      api_call, last_write, failures, user_data, progress_seen,
                   worker_tasks, item_path_cache, cache_refresh_locks, sync_config>>

\* _execute_sync: result = await func(*args, **kwargs), answered by the peer
\* (ok) or refused with an HTTP status error
ExecMutate(t, ok) ==
    LET e == t.event
        key == PeerKey(e.target_server, e.username, e.item_path)
        k == PayloadKey(e.target_server, e, e.event_type)
    IN /\ t \in tasks
       /\ t.phase = "mutate"
       /\ user_data' = IF ok THEN [user_data EXCEPT ![key] = apply_call(@, t.call[1])]
                       ELSE user_data
       /\ last_write' =
              IF ok
              THEN [x \in DOMAIN last_write \cup {k} |-> IF x = k THEN now ELSE last_write[x]]
              ELSE last_write
       /\ IF ok
          THEN /\ tasks' = (tasks \ {t}) \cup
                      {ExecTask(t, "called", t.got, t.seen, t.call,
                                SyncResult(TRUE, "Synced successfully",
                                           Some(t.call[1].synced_value)))}
               /\ UNCHANGED <<pending_events, sync_log>>
          ELSE FailTask(t, SyncResult(FALSE, "Sync operation returned false", None))
       /\ UNCHANGED <<now, ticks, crashes, webhooks, running, next_id, user_mappings,
                      sync_cooldowns, last_progress_sync, handlers, worker_pc, peer_data,
                      api_call, failures, progress_seen,
                   worker_tasks, item_path_cache, cache_refresh_locks, sync_config>>

\* The worker on events for one item of lan, from wan and from backup
ExecSources == {"wan", "backup"}

ExecNext ==
    \/ StartWorker(Servers)
    \/ \E src \in ExecSources, ev \in ExecEvents : ExecAdd(src, ev)
    \/ WorkerWake
    \/ StartWaitingBatch
    \/ FinishTick
    \/ \E t \in tasks, got \in {"data", "empty", "error"} : ExecGetUserData(t, got)
    \/ \E t \in tasks, ok \in BOOLEAN : ExecMutate(t, ok)
    \/ \E t \in tasks : TaskResume(t)
    \/ \E t \in tasks : TaskDelete(t)

ExecSpec == Init /\ [][ExecNext]_vars

\* PROGRESS records at 1:00 and 2:00 of the item
ProgressEvents == {Ev("progress", "position_ticks", k) : k \in {600000000, 1200000000}}

\* The worker on PROGRESS events for one item of lan, one after the other, so
\* that the target is behind, at, or ahead of the position of the event
ProgressNext ==
    \/ \E d \in TimeSteps : Tick(d)
    \/ StartWorker(Servers)
    \/ \E src \in ExecSources, ev \in ProgressEvents : ExecAdd(src, ev)
    \/ WorkerWake
    \/ StartWaitingBatch
    \/ FinishTick
    \/ \E t \in tasks, got \in {"data", "empty", "error"} : ExecGetUserData(t, got)
    \/ \E t \in tasks, ok \in BOOLEAN : ExecMutate(t, ok)
    \/ \E t \in tasks : TaskResume(t)
    \/ \E t \in tasks : TaskDelete(t)

ProgressSpec == Init /\ [][ProgressNext]_vars

\* The configuration with sync.dry_run set
DryRunConfig == [SyncConfig EXCEPT !.dry_run = TRUE]

\* The worker on events of every type for one item of lan, in dry-run mode
\* and, for the contrast, with the configuration that writes
DryRunNext ==
    \/ StartWorker(Servers)
    \/ \E ev \in ExecEvents \cup ProgressEvents : ExecAdd("wan", ev)
    \/ WorkerWake
    \/ StartWaitingBatch
    \/ FinishTick
    \/ \E t \in tasks, got \in {"data", "empty", "error"} : ExecGetUserData(t, got)
    \/ \E t \in tasks, ok \in BOOLEAN : ExecMutate(t, ok)
    \/ \E t \in tasks : TaskResume(t)
    \/ \E t \in tasks : TaskDelete(t)

\* The process starts with either configuration
DryRunInit == \E config \in {SyncConfig, DryRunConfig} : InitWith(config)

DryRunSpec == DryRunInit /\ [][DryRunNext]_vars

\* ------------------------------------------------------ the progress debounce
DebounceSteps == {20, PROGRESS_DEBOUNCE_SECONDS}
DebounceUsers == {"alice", "bob"}

\* PlaybackProgress webhooks of two users for two items, with and without a position
ProgressPayloads(server) ==
    {[BasePayload(server, u, p) EXCEPT !.event = "PlaybackProgress",
                                       !.playback_position_ticks = k] :
        u \in DebounceUsers, p \in {PathNew, PathOld}, k \in {0, 1, 2}}

\* The webhook intake on PlaybackProgress webhooks, one request at a time
DebounceNext ==
    \/ \E d \in DebounceSteps : Tick(d)
    \/ StartWorker(Servers)
    \/ Crash
    \/ \E src \in WebhookSources : \E p \in ProgressPayloads(src) :
           ReceiveWebhook(1, TwoServers, src, p)
    \/ DedupCheck(1)
    \/ Insert(1)

DebounceSpec == Init /\ [][DebounceNext]_vars

\* ------------------------------------------------- the item identity key
\* UserDataSaved webhooks with every combination of path and provider ids
\* given or not (None and "" are both falsy to the code: one empty value here)
IdentityPayloads(server) ==
    {[BasePayload(server, "alice", path) EXCEPT
         !.event = "UserDataSaved", !.is_played = Some(TRUE),
         !.provider_imdb = imdb, !.provider_tmdb = tmdb, !.provider_tvdb = tvdb] :
        path \in {NoPath, PathNew}, imdb \in {"", "tt1234567"},
        tmdb \in {"", "12345"}, tvdb \in {"", "67890"}}

\* The webhook intake on those webhooks: parse, cooldown check with the
\* identity key of each record, enqueue
IdentityNext ==
    \/ \E d \in TimeSteps : Tick(d)
    \/ StartWorker(Servers)
    \/ \E src \in WebhookSources : \E p \in IdentityPayloads(src) :
           ReceiveWebhook(1, TwoServers, src, p)
    \/ DedupCheck(1)
    \/ Insert(1)

IdentitySpec == Init /\ [][IdentityNext]_vars

\* ------------------------------------------------------ the cooldown harness
\* A caller of _set_cooldown, as tests/test_sync_engine.py is: two peers, two
\* users, two event types, and items known by path, by IMDB id, or by nothing
CooldownServers == {"wan", "lan"}
CooldownTypes == {"watched", "favorite"}
CooldownItems ==
    {[BasePayload("wan", u, path) EXCEPT !.provider_imdb = imdb] :
        u \in DebounceUsers, path \in {NoPath, PathNew}, imdb \in {"", "tt1234567"}}

\* engine._set_cooldown(server, username, item_path, event_type, provider ids)
CSetCooldown(server, x, event_type) ==
    /\ Cardinality(DOMAIN sync_cooldowns \cup {PayloadKey(server, x, event_type)})
           <= MaxCooldowns
    /\ sync_cooldowns' = set_cooldown(sync_cooldowns, server, x, event_type, now)
    /\ api_call' = Call("set_cooldown", <<server, x, event_type>>, 0)
    /\ UNCHANGED <<now, ticks, crashes, webhooks, running, pending_events, next_id, sync_log,
                   user_mappings, last_progress_sync, handlers, worker_pc, tasks, peer_data,
                   last_write, failures, user_data, progress_seen, worker_tasks,
                   item_path_cache, cache_refresh_locks, sync_config>>

CooldownNext ==
    \/ \E d \in TimeSteps : Tick(d)
    \/ \E server \in CooldownServers, x \in CooldownItems, event_type \in CooldownTypes :
           CSetCooldown(server, x, event_type)

CooldownSpec == Init /\ [][CooldownNext]_vars

\* ------------------------------------------------------------- the fan-out
\* UserDataSaved webhooks that parse to one or two records
EnqueuePayloads(server) ==
    {[BasePayload(server, "alice", PathNew) EXCEPT
         !.event = "UserDataSaved", !.is_played = Some(TRUE), !.is_favorite = favorite] :
        favorite \in {None, Some(TRUE)}}

\* Three peers, one request at a time, and the worker.  Of the peers only lan
\* answers within the run: it takes the WATCHED calls and fails the others.
EnqueueNext ==
    \/ \E d \in TimeSteps : Tick(d)
    \/ StartWorker(Servers)
    \/ \E src \in WebhookSources : \E p \in EnqueuePayloads(src) :
           ReceiveWebhook(1, ThreeServers, src, p)
    \/ DedupCheck(1)
    \/ Insert(1)
    \/ WorkerWake
    \/ StartWaitingBatch
    \/ FinishTick
    \/ \E t \in tasks : /\ t.event.target_server = "lan"
                         /\ t.event.event_type = "watched"
                         /\ TaskPeerCall(t, "ok")
    \/ \E t \in tasks : /\ t.event.target_server = "lan"
                         /\ t.event.event_type # "watched"
                         /\ TaskPeerCall(t, "error")
    \/ \E t \in tasks : TaskResume(t)
    \/ \E t \in tasks : TaskDelete(t)

EnqueueSpec == Init /\ [][EnqueueNext]_vars

\* ------------------------------------------------- more events than permits
\* A UserDataSaved webhook that parses to six records, and a webhook of lan
\* that parses to none (it brings the user mapping of lan)
BatchPayloads ==
    {[BasePayload("wan", "alice", PathNew) EXCEPT
         !.event = "UserDataSaved", !.is_played = Some(TRUE), !.is_favorite = Some(TRUE),
         !.likes = Some(TRUE), !.play_count = Some(1), !.audio_stream_index = Some(1),
         !.subtitle_stream_index = Some(1)],
     [BasePayload("lan", "alice", PathNew) EXCEPT !.event = "PlaybackStop"]}

\* The worker on a batch of six events for one item of lan that has no
\* UserData for the user yet, and for a while not the item either.  Requests
\* come and are over while the worker sleeps; the process is killed, if at
\* all, when the batch is down to the event that waits for its item.
BatchNext ==
    \/ (worker_pc = "sleep" /\ handlers[1].pc \in {"free", "done"} /\ Tick(300))
    \/ StartWorker(Servers)
    \/ (tasks # {} /\ (\A t \in tasks : t.phase = "result") /\ Crash)
    \/ \E p \in BatchPayloads :
           worker_pc = "sleep" /\ ReceiveWebhook(1, TwoServers, p.user_id[1], p)
    \/ DedupCheck(1)
    \/ Insert(1)
    \/ (handlers[1].pc \in {"free", "done"} /\ WorkerWake)
    \/ StartWaitingBatch
    \/ FinishTick
    \/ \E t \in tasks : ExecGetUserData(t, "empty")
    \/ \E t \in tasks : ExecMutate(t, TRUE)
    \/ \E t \in tasks : t.event.event_type = "watched" /\ TaskPeerCall(t, "no_item")
    \/ \E t \in tasks : TaskMark(t)
    \/ \E t \in tasks : TaskResume(t)
    \/ \E t \in tasks : TaskDelete(t)

BatchSpec == Init /\ [][BatchNext]_vars

\* Items that are on no target peer: under the bounded policy, under the
\* policy that allows no retry, under no policy, and without a path
NotFoundPaths == {PathOld, PathTv, PathPhoto, NoPath}

\* The pipeline with targets that do not hold the item or do not answer
NotFoundNext ==
    \/ \E d \in TimeSteps : Tick(d)
    \/ StartWorker(Servers)
    \/ Crash
    \/ \E p \in WatchedPayloads("wan", NotFoundPaths) :
           p.is_played = Some(TRUE) /\ ReceiveWebhook(1, TwoServers, "wan", p)
    \/ DedupCheck(1)
    \/ Insert(1)
    \/ WorkerWake
    \/ StartWaitingBatch
    \/ FinishTick
    \/ \E t \in tasks, resp \in {"no_item", "error"} : TaskPeerCall(t, resp)
    \/ \E t \in tasks : TaskMark(t)
    \/ \E t \in tasks : TaskDelete(t)

NotFoundSpec == Init /\ [][NotFoundNext]_vars

\* ------------------------------------------- _sync_event, call by call
\* How far a process_one coroutine is inside _sync_event, and the requests
\* it has sent to the target peer so far, each with its answer
StepOf(t) == IF "step" \in DOMAIN t THEN t.step ELSE "start"
CallsOf(t) == IF "calls" \in DOMAIN t THEN t.calls ELSE {}
AtStep(t, step, calls) == [step |-> step, calls |-> calls] @@ t

\* _sync_event has its SyncResult, or the exception process_one will catch
AtReturn(t, resp, calls) == [step |-> "return", resp |-> resp, calls |-> calls] @@ t

\* httpx.HTTPStatusError of response.raise_for_status(): any 4xx or 5xx
HttpErrors == {"http_404", "http_5xx"}

\* The task t after one more step
Stepped(t, next) == (tasks \ {t}) \cup {next}

\* Database.get_cached_item_id: the rows for (server_name, item_path)
get_cached_item_id(cache, server_name, item_path) ==
    {c \in cache : c.server_name = server_name /\ c.item_path = item_path}

\* Database.invalidate_item_cache(server_name, item_path)
invalidate_item_cache(cache, server_name, item_path) ==
    cache \ get_cached_item_id(cache, server_name, item_path)

\* Database.cache_items_batch for the one item the model follows
cache_items_batch(cache, server_name, item_path, item_id) ==
    invalidate_item_cache(cache, server_name, item_path)
    \cup {[server_name |-> server_name, item_path |-> item_path, item_id |-> item_id]}

\* A refresh that is started whether or not the lock is held
RefreshUnlocked(lock, id) == <<[lock EXCEPT !.locked = TRUE], "refreshing">>

\* JellyfinClient._refresh_cache_and_find up to its suspension: with the lock
\* held the caller queues up to wait; otherwise it takes the lock and
\* refreshes, behind the waiters that have been woken but have not run yet
\* (asyncio.Lock.acquire)
refresh_cache_and_find(lock, id) ==
    IF lock.locked THEN <<[lock EXCEPT !.waiters = Append(@, id)], "wait">>
    ELSE IF lock.waiters = <<>> THEN <<[lock EXCEPT !.locked = TRUE], "refreshing">>
    ELSE <<[lock EXCEPT !.waiters = Append(@, id)], "acquire">>

\* What _sync_event and the client leave alone before _sync_event returns
LookupFrame == <<now, ticks, crashes, webhooks, running, pending_events, next_id, sync_log,
                 sync_cooldowns, last_progress_sync, handlers, worker_pc, peer_data,
                 api_call, last_write, failures, user_data, progress_seen, worker_tasks,
                 sync_config>>

\* _sync_event: db.get_user_mapping, and without a mapping client.get_user_id
\* (GET /Users, names compared in lower case) and db.upsert_user_mapping
SyncUser(t, ans) ==
    LET e == t.event
        mapped == get_user_mapping(user_mappings, e.username, e.target_server) # {}
    IN /\ t \in tasks /\ t.phase = "claimed" /\ StepOf(t) = "start"
       /\ IF mapped
          THEN /\ ans = "mapped"
               /\ tasks' = Stepped(t, AtStep(t, "find", {}))
               /\ UNCHANGED user_mappings
          ELSE /\ ans \in {"has_user", "no_user", "http_5xx", "transport_error"}
               /\ tasks' = Stepped(t,
                      CASE ans = "has_user" -> AtStep(t, "find", {<<"get_users", ans>>})
                        [] ans = "no_user" -> AtReturn(t, "no_user", {<<"get_users", ans>>})
                        [] OTHER -> AtReturn(t, "error", {<<"get_users", ans>>}))
               /\ user_mappings' =
                      IF ans = "has_user"
                      THEN upsert_user_mapping(user_mappings, e.username, e.target_server,
                                               UserIdOn(e.target_server, e.username))
                      ELSE user_mappings
       /\ UNCHANGED <<item_path_cache, cache_refresh_locks, sync_config>>
       /\ UNCHANGED LookupFrame

\* JellyfinClient.find_item_by_path up to the refresh: the cache row, GET of
\* the item by the cached id, invalidation on an HTTP error status; without a
\* row straight on to _refresh_cache_and_find
FindItemByPath(t, ans) ==
    LET e == t.event
        cached == get_cached_item_id(item_path_cache, e.target_server, e.item_path)
        enter == refresh_cache_and_find(cache_refresh_locks[e.target_server], e.id)
    IN /\ t \in tasks /\ StepOf(t) = "find"
       /\ IF e.item_path = NoPath
          THEN /\ ans = "no_path"
               /\ tasks' = Stepped(t, AtStep(t, "provider", CallsOf(t)))
               /\ UNCHANGED <<item_path_cache, cache_refresh_locks, sync_config>>
          ELSE IF cached # {}
          THEN /\ ans \in {"ok", "http_404", "http_5xx", "transport_error"}
               /\ tasks' = Stepped(t,
                      CASE ans = "ok" ->
                              [from_cache |-> TRUE] @@
                                  AtStep(t, "execute", CallsOf(t) \cup {<<"get_item", ans>>})
                        [] ans \in HttpErrors ->
                              AtStep(t, "lock_check", CallsOf(t) \cup {<<"get_item", ans>>})
                        [] OTHER -> AtReturn(t, "error", CallsOf(t) \cup {<<"get_item", ans>>}))
               /\ item_path_cache' =
                      IF ans \in HttpErrors
                      THEN invalidate_item_cache(item_path_cache, e.target_server, e.item_path)
                      ELSE item_path_cache
               /\ UNCHANGED cache_refresh_locks
          ELSE /\ ans = "miss"
               /\ tasks' = Stepped(t, AtStep(t, enter[2], CallsOf(t)))
               /\ cache_refresh_locks' =
                      [cache_refresh_locks EXCEPT ![e.target_server] = enter[1]]
               /\ UNCHANGED item_path_cache
       /\ UNCHANGED user_mappings
       /\ UNCHANGED LookupFrame

\* find_item_by_path resumes after db.invalidate_item_cache and calls
\* _refresh_cache_and_find
LockCheck(t) ==
    LET e == t.event
        enter == refresh_cache_and_find(cache_refresh_locks[e.target_server], e.id)
    IN /\ t \in tasks /\ StepOf(t) = "lock_check"
       /\ tasks' = Stepped(t, AtStep(t, enter[2], CallsOf(t)))
       /\ cache_refresh_locks' = [cache_refresh_locks EXCEPT ![e.target_server] = enter[1]]
       /\ UNCHANGED <<user_mappings, item_path_cache>>
       /\ UNCHANGED LookupFrame

\* A coroutine queued on the lock runs: "async with lock: pass" of a caller
\* that found the lock held, or the acquire of a caller that will refresh
LockAcquired(t) ==
    LET e == t.event
        lock == cache_refresh_locks[e.target_server]
    IN /\ t \in tasks /\ StepOf(t) \in {"wait", "acquire"}
       /\ ~lock.locked
       /\ lock.waiters # <<>> /\ Head(lock.waiters) = e.id
       /\ cache_refresh_locks' = [cache_refresh_locks EXCEPT ![e.target_server] =
              [locked |-> StepOf(t) = "acquire", waiters |-> Tail(lock.waiters)]]
       /\ tasks' = Stepped(t, AtStep(t, IF StepOf(t) = "wait" THEN "recheck" ELSE "refreshing",
                                     CallsOf(t)))
       /\ UNCHANGED <<user_mappings, item_path_cache>>
       /\ UNCHANGED LookupFrame

\* JellyfinClient._do_refresh_cache under the lock: the library is fetched,
\* cached in one batch and searched; an HTTP error status is swallowed and
\* None returned; the lock is released on every way out
DoRefreshCache(t, ans) ==
    LET e == t.event
        calls == CallsOf(t) \cup {<<"refresh", ans>>}
    IN /\ t \in tasks /\ StepOf(t) = "refreshing"
       /\ ans \in {"has_item", "no_item", "http_5xx", "transport_error"}
       /\ tasks' = Stepped(t,
              CASE ans = "has_item" -> [from_cache |-> FALSE] @@ AtStep(t, "execute", calls)
                [] ans = "transport_error" -> AtReturn(t, "error", calls)
                [] OTHER -> AtStep(t, "provider", calls))
       /\ item_path_cache' =
              IF ans = "has_item"
              THEN cache_items_batch(item_path_cache, e.target_server, e.item_path,
                                     ItemIdOn(e.target_server, e.item_path))
              ELSE item_path_cache
       /\ cache_refresh_locks' = [cache_refresh_locks EXCEPT ![e.target_server].locked = FALSE]
       /\ UNCHANGED user_mappings
       /\ UNCHANGED LookupFrame

\* _refresh_cache_and_find after the wait: the cache is read again, the item
\* fetched by the cached id; no row or an HTTP error status gives None
RecheckCache(t, ans) ==
    LET e == t.event
        cached == get_cached_item_id(item_path_cache, e.target_server, e.item_path)
    IN /\ t \in tasks /\ StepOf(t) = "recheck"
       /\ IF cached # {}
          THEN /\ ans \in {"ok", "http_404", "http_5xx", "transport_error"}
               /\ tasks' = Stepped(t,
                      CASE ans = "ok" ->
                              [from_cache |-> TRUE] @@
                                  AtStep(t, "execute", CallsOf(t) \cup {<<"get_item", ans>>})
                        [] ans \in HttpErrors ->
                              AtStep(t, "provider", CallsOf(t) \cup {<<"get_item", ans>>})
                        [] OTHER -> AtReturn(t, "error", CallsOf(t) \cup {<<"get_item", ans>>}))
          ELSE /\ ans = "miss"
               /\ tasks' = Stepped(t, AtStep(t, "provider", CallsOf(t)))
       /\ UNCHANGED <<user_mappings, item_path_cache, cache_refresh_locks, sync_config>>
       /\ UNCHANGED LookupFrame

\* _sync_event after find_item_by_path gave None: find_item_by_provider_id when
\* the event has a provider id (an HTTP error status is swallowed), else
\* _handle_item_not_found
FindItemByProviderId(t, ans) ==
    LET e == t.event
        has_id == e.provider_imdb # "" \/ e.provider_tmdb # "" \/ e.provider_tvdb # ""
    IN /\ t \in tasks /\ StepOf(t) = "provider"
       /\ IF has_id
          THEN /\ ans \in {"found", "none", "http_5xx", "transport_error"}
               /\ tasks' = Stepped(t,
                      CASE ans = "found" ->
                              [from_cache |-> FALSE] @@
                                  AtStep(t, "execute", CallsOf(t) \cup {<<"provider", ans>>})
                        [] ans = "transport_error" ->
                              AtReturn(t, "error", CallsOf(t) \cup {<<"provider", ans>>})
                        [] OTHER -> AtReturn(t, "no_item", CallsOf(t) \cup {<<"provider", ans>>}))
          ELSE /\ ans = "no_id"
               /\ tasks' = Stepped(t, AtReturn(t, "no_item", CallsOf(t)))
       /\ UNCHANGED <<user_mappings, item_path_cache, cache_refresh_locks, sync_config>>
       /\ UNCHANGED LookupFrame

\* _execute_sync: the answer of the peer to the mutation.  The client's
\* mutators return False on an HTTP error status, 404 included, and nothing
\* else is done about it; a transport error is raised
ExecuteSyncAnswer(t, ans) ==
    LET e == t.event
        key == PeerKey(e.target_server, e.username, e.item_path)
    IN /\ t \in tasks /\ StepOf(t) = "execute"
       /\ ans \in {"ok", "http_404", "http_5xx", "transport_error"}
       /\ ans \in HttpErrors =>
              peer_data[key] # e.event_data[2] /\ ~sync_config.dry_run
       /\ tasks' = Stepped(t,
              [answer |-> ans] @@
                  AtReturn(t, CASE ans = "ok" -> "ok"
                                [] ans = "transport_error" -> "error"
                                [] OTHER -> "mutation_failed",
                           CallsOf(t) \cup {<<"mutation", ans>>}))
       /\ UNCHANGED <<user_mappings, item_path_cache, cache_refresh_locks, sync_config>>
       /\ UNCHANGED LookupFrame

\* _sync_event returns (or raises) and process_one goes on to the queue
SyncEventReturn(t) ==
    /\ t \in tasks /\ StepOf(t) = "return"
    /\ TaskPeerCall(t, t.resp)

\* Webhooks of wan that carry Played for one item, with and without an IMDB id
LookupPayloads ==
    {[BasePayload("wan", "alice", PathOld) EXCEPT
         !.event = "UserDataSaved", !.is_played = Some(TRUE), !.provider_imdb = imdb] :
        imdb \in {"", "tt0111161"}}

\* One event at a time for lan, whose answers are free at every request; at
\* startup lan may be out of reach, so that its user mapping is missing
LookupNext ==
    \/ \E d \in TimeSteps : Tick(d)
    \/ \E reachable \in {{"wan"}, Servers} : StartWorker(reachable)
    \/ \E p \in LookupPayloads : ReceiveWebhook(1, TwoServers, "wan", p)
    \/ DedupCheck(1)
    \/ Insert(1)
    \/ WorkerWake
    \/ StartWaitingBatch
    \/ FinishTick
    \/ \E t \in tasks, ans \in {"mapped", "has_user", "no_user", "http_5xx", "transport_error"} :
           SyncUser(t, ans)
    \/ \E t \in tasks, ans \in {"miss", "ok", "http_404", "http_5xx", "transport_error"} :
           FindItemByPath(t, ans)
    \/ \E t \in tasks : LockCheck(t)
    \/ \E t \in tasks, ans \in {"has_item", "no_item", "http_5xx", "transport_error"} :
           DoRefreshCache(t, ans)
    \/ \E t \in tasks, ans \in {"no_id", "found", "none", "http_5xx", "transport_error"} :
           FindItemByProviderId(t, ans)
    \/ \E t \in tasks, ans \in {"ok", "http_404", "http_5xx", "transport_error"} :
           ExecuteSyncAnswer(t, ans)
    \/ \E t \in tasks : SyncEventReturn(t)
    \/ \E t \in tasks : TaskResume(t)
    \/ \E t \in tasks : TaskMark(t)
    \/ \E t \in tasks : TaskDelete(t)

LookupSpec == Init /\ [][LookupNext]_vars

\* ------------------------------------------- lookups that run side by side
\* A UserDataSaved webhook of wan that parses to two records, for an item
\* that is in no cache yet
RefreshPayloads ==
    {[BasePayload("wan", "alice", PathOld) EXCEPT
         !.event = "UserDataSaved", !.is_played = Some(TRUE), !.is_favorite = Some(TRUE)]}

\* The same with Likes set: three records
RefreshPayloads3 ==
    {[p EXCEPT !.likes = Some(TRUE)] : p \in RefreshPayloads}

\* One webhook with three peers configured gives a batch of two events for
\* lan and two for backup; with two peers configured, three events for lan.
\* Their process_one coroutines look the one item up side by side.
\* Every user is mapped at startup; lan may hold the item and takes the
\* WATCHED calls only, backup does not hold the item.
RefreshNext ==
    \/ StartWorker(Servers)
    \/ \E p \in RefreshPayloads :
           webhooks = 0 /\ ReceiveWebhook(1, ThreeServers, "wan", p)
    \/ \E p \in RefreshPayloads3 :
           webhooks = 0 /\ ReceiveWebhook(1, TwoServers, "wan", p)
    \/ DedupCheck(1)
    \/ Insert(1)
    \/ (handlers[1].pc \in {"free", "done"} /\ WorkerWake)
    \/ StartWaitingBatch
    \/ FinishTick
    \/ \E t \in tasks : SyncUser(t, "mapped")
    \/ \E t \in tasks, ans \in {"miss", "ok", "http_404"} : FindItemByPath(t, ans)
    \/ \E t \in tasks : LockCheck(t)
    \/ \E t \in tasks : LockAcquired(t)
    \/ \E t \in tasks :
           DoRefreshCache(t, IF t.event.target_server = "lan" THEN "has_item" ELSE "no_item")
    \/ \E t \in tasks, ans \in {"miss", "ok", "http_404", "transport_error"} :
           RecheckCache(t, ans)
    \/ \E t \in tasks : FindItemByProviderId(t, "no_id")
    \/ \E t \in tasks :
           ExecuteSyncAnswer(t, IF t.event.event_type = "watched" THEN "ok"
                                ELSE "transport_error")
    \/ \E t \in tasks : SyncEventReturn(t)
    \/ \E t \in tasks : TaskMark(t)
    \/ \E t \in tasks : TaskResume(t)
    \/ \E t \in tasks : TaskDelete(t)

RefreshSpec == Init /\ [][RefreshNext]_vars

\* ------------------------------------------------------ the user mappings
\* The spellings under which the webhooks of a peer name the one user
MappingNames == {"Alice", "alice"}

\* UserDataSaved webhooks that carry Played, under either spelling
MappingPayloads(server) ==
    {[BasePayload(server, u, PathOld) EXCEPT !.event = "UserDataSaved",
                                             !.is_played = Some(TRUE)] :
        u \in MappingNames}

\* Every writer of user_mappings that runs without a user being created or
\* deleted: sync_all_users at startup (lan may be out of reach then),
\* enqueue_events for the source peer, and the worker's upsert for the target
\* peer when get_user_mapping finds nothing.  The items are on no peer.
MappingNext ==
    \/ \E d \in TimeSteps : Tick(d)
    \/ \E reachable \in {{"wan"}, Servers} : StartWorker(reachable)
    \/ \E src \in WebhookSources : \E p \in MappingPayloads(src) :
           ReceiveWebhook(1, TwoServers, src, p)
    \/ DedupCheck(1)
    \/ Insert(1)
    \/ WorkerWake
    \/ StartWaitingBatch
    \/ FinishTick
    \/ \E t \in tasks, ans \in {"mapped", "has_user", "no_user", "http_5xx", "transport_error"} :
           SyncUser(t, ans)
    \/ \E t \in tasks : FindItemByPath(t, "miss")
    \/ \E t \in tasks : DoRefreshCache(t, "no_item")
    \/ \E t \in tasks : FindItemByProviderId(t, "no_id")
    \/ \E t \in tasks : SyncEventReturn(t)
    \/ \E t \in tasks : TaskMark(t)
    \/ \E t \in tasks : TaskDelete(t)

MappingSpec == Init /\ [][MappingNext]_vars

\* ------------------------------------------------- the worker's life cycle
\* What start_worker and stop_worker leave alone
LifecycleFrame == <<now, ticks, crashes, webhooks, next_id, sync_log, user_mappings,
                    sync_cooldowns, last_progress_sync, handlers, worker_pc, tasks,
                    peer_data, api_call, last_write, failures, user_data, progress_seen,
                    item_path_cache, cache_refresh_locks, sync_config>>

\* start_worker up to its first suspension: the test of _running, then
\* await db.reset_all_processing()
StartWorkerCheck(c) ==
    /\ worker_tasks.pc[c].at = "idle"
    /\ worker_tasks.calls < MaxCalls
    /\ IF running
       THEN /\ worker_tasks' = [worker_tasks EXCEPT !.calls = @ + 1]
            /\ UNCHANGED pending_events
       ELSE /\ worker_tasks' = [worker_tasks EXCEPT
                   !.calls = @ + 1,
                   !.pc[c] = [at |-> "reset", task |-> worker_tasks.calls + 1]]
            /\ pending_events' = reset_all_processing(pending_events, now)
    /\ UNCHANGED running
    /\ UNCHANGED LifecycleFrame

\* start_worker resumes: _running = True, _worker_task = create_task(_worker_loop)
StartWorkerCreate(c) ==
    /\ worker_tasks.pc[c].at = "reset"
    /\ running' = TRUE
    /\ worker_tasks' = [worker_tasks EXCEPT
           !.worker_task = worker_tasks.pc[c].task,
           !.loops = @ \cup {worker_tasks.pc[c].task},
           !.pc[c] = [at |-> "idle", task |-> 0]]
    /\ UNCHANGED pending_events
    /\ UNCHANGED LifecycleFrame

\* stop_worker up to its suspension: _running = False, _worker_task.cancel(),
\* await _worker_task; without a task it returns at once
StopWorkerCancel(c) ==
    /\ worker_tasks.pc[c].at = "idle"
    /\ worker_tasks.calls < MaxCalls
    /\ running' = FALSE
    /\ worker_tasks' = [worker_tasks EXCEPT
           !.calls = @ + 1,
           !.pc[c] = IF worker_tasks.worker_task # 0
                     THEN [at |-> "await", task |-> worker_tasks.worker_task]
                     ELSE @]
    /\ UNCHANGED pending_events
    /\ UNCHANGED LifecycleFrame

\* The cancelled task has ended and stop_worker resumes: _worker_task = None
StopWorkerReturn(c) ==
    /\ worker_tasks.pc[c].at = "await"
    /\ worker_tasks' = [worker_tasks EXCEPT
           !.worker_task = 0,
           !.loops = @ \ {worker_tasks.pc[c].task},
           !.pc[c] = [at |-> "idle", task |-> 0]]
    /\ UNCHANGED <<running, pending_events>>
    /\ UNCHANGED LifecycleFrame

\* _worker_loop: while self._running is tested after the sleep and is false
WorkerLoopExit(id) ==
    /\ id \in worker_tasks.loops
    /\ ~running
    /\ worker_tasks' = [worker_tasks EXCEPT !.loops = @ \ {id}]
    /\ UNCHANGED <<running, pending_events>>
    /\ UNCHANGED LifecycleFrame

\* Calls of start_worker and stop_worker from two coroutines, in any order
\* and overlapping at their suspensions
LifecycleNext ==
    \/ \E c \in Callers : StartWorkerCheck(c)
    \/ \E c \in Callers : StartWorkerCreate(c)
    \/ \E c \in Callers : StopWorkerCancel(c)
    \/ \E c \in Callers : StopWorkerReturn(c)
    \/ \E id \in 1..MaxCalls : WorkerLoopExit(id)

LifecycleSpec == Init /\ [][LifecycleNext]_vars

\* ------------------------------------------------------------------- claims
SameDedupKey(a, b) ==
    /\ a.event_type = b.event_type
    /\ a.target_server = b.target_server
    /\ a.username = b.username
    /\ a.item_id = b.item_id

\* C1: in every reachable state the queue holds at most one non-terminal row
\* (pending, processing, waiting_for_item) per dedup key (event_type,
\* target_server, username, item_id).
C1_OneRowPerDedupKey ==
    \A a, b \in pending_events :
        (SameDedupKey(a, b) /\ a.status \in NonTerminal /\ b.status \in NonTerminal)
            => a.id = b.id

\* The ids add_pending_event has given out, and those it can give out
Enqueued == 1..(next_id - 1)
EventIds == 1..(2 * MaxWebhooks)

Logged(id) == \E entry \in BagToSet(sync_log) : entry.event_id = id
InFlight(id) == \E t \in tasks : t.event.id = id

\* An enqueued event is in the queue or has a logged outcome.
C2_NoSilentDrop == \A id \in Enqueued : HasRow(id) \/ Logged(id)

\* The process is down and the row was left in processing.
C2_LeftProcessing(id) == ~running /\ HasRow(id) /\ Row(id).status = "processing"

\* C2: at-least-once.  An enqueued event never leaves the queue without a
\* logged outcome, wherever the process crashes; a row a crash left in
\* processing is claimed again after the restart, and what is claimed is
\* processed to the end of its process_one.
C2_AtLeastOnce ==
    /\ []C2_NoSilentDrop
    /\ \A id \in EventIds : C2_LeftProcessing(id) ~> InFlight(id)
    /\ \A id \in EventIds : (running /\ InFlight(id)) ~> (~running \/ ~InFlight(id))

\* C2 witness: the process crashed between the log_sync and the DELETE of an
\* event, restarted, and the event is in flight again.
C2_Witness ==
    /\ crashes > 0 /\ running
    /\ \E id \in Enqueued : Logged(id) /\ InFlight(id)

\* The sync_log entries of one event with one outcome
LogCount(log, id, success) ==
    LET entries == {e \in BagToSet(log) : e.event_id = id /\ e.success = success}
    IN BagCardinality([e \in entries |-> CopiesIn(e, log)])

\* C3: an event claimed from pending whose item is not found and whose policy
\* allows a retry stays in the queue until the tick is over: status
\* waiting_for_item, item_not_found_count one higher, next_retry_at = the time
\* of the marking + retry_delay_seconds, and no success entry is logged for it.
C3_RequeuedStaysWaiting ==
    [][\A t \in tasks :
          (t.origin = "pending" /\ t.phase = "result") =>
              /\ HasRow(t.event.id)'
              /\ Row(t.event.id)'.status = "waiting_for_item"
              /\ Row(t.event.id)'.item_not_found_count = t.event.item_not_found_count + 1
              /\ Row(t.event.id)'.next_retry_at =
                     t.marked_at + get_path_policy(t.event.item_path)[1].retry_delay_seconds
              /\ LogCount(sync_log', t.event.id, TRUE) = LogCount(sync_log, t.event.id, TRUE)]_vars

\* Nothing is queued, in flight or being enqueued.
Drained ==
    /\ running
    /\ webhooks > 0
    /\ pending_events = {}
    /\ tasks = {}
    /\ \A h \in 1..MaxHandlers : handlers[h].pc \in {"free", "done"}

\* C4: once the queue has drained, with one emitting peer and targets that
\* answer, every target holds the value the source emitted last.
C4_Converged ==
    Drained =>
        \A u \in Users, p \in PeerPaths, s \in Servers :
            peer_data[PeerKey(s, u, p)] = peer_data[PeerKey("wan", u, p)]

\* The step is one call of reset_all_processing.
IsCall(op) == api_call' # api_call /\ api_call'.op = op

StatusCount(tbl, status) == Cardinality({r \in tbl : r.status = status})

\* C5: reset_all_processing leaves no row in processing; pending after =
\* pending + processing before; waiting_for_item rows, and retry_count,
\* item_not_found_count, next_retry_at and event_data of every row, unchanged.
C5_ResetAll ==
    [][IsCall("reset_all_processing") =>
          /\ StatusCount(pending_events', "processing") = 0
          /\ StatusCount(pending_events', "pending") =
                 StatusCount(pending_events, "pending") + StatusCount(pending_events, "processing")
          /\ {r.id : r \in pending_events'} = {r.id : r \in pending_events}
          /\ \A r \in pending_events : \E q \in pending_events' :
                 /\ q.id = r.id
                 /\ q.retry_count = r.retry_count
                 /\ q.item_not_found_count = r.item_not_found_count
                 /\ q.next_retry_at = r.next_retry_at
                 /\ q.event_data = r.event_data
                 /\ r.status = "waiting_for_item" => q = r]_vars

\* C5 witness: a reset that found a row in processing with a retry time, next
\* to a row waiting for its item.
C5_Witness ==
    /\ api_call.op = "reset_all_processing" /\ api_call.ret >= 1
    /\ \E r \in pending_events : r.status = "waiting_for_item"
    /\ \E r \in pending_events :
           r.status = "pending" /\ r.retry_count > 0 /\ r.updated_at = now /\ r.next_retry_at < now

\* A slot takes a request in this step.
Started(h) ==
    /\ handlers[h].pc \in {"free", "done"}
    /\ handlers'[h] # handlers[h]
    /\ handlers'[h].pc # "free"

\* C6: a webhook from P that arrives less than 30 s after the worker wrote E
\* for the same user and item to P enqueues nothing for E.
C6_Suppressed ==
    [][\A h \in 1..MaxHandlers :
          Started(h) =>
              \A k \in DOMAIN last_write :
                  (k \in handlers'[h].parsed /\ now < last_write[k] + SYNC_COOLDOWN_SECONDS)
                      => k \notin handlers'[h].passed]_vars

Range(seq) == {seq[i] : i \in DOMAIN seq}

\* What a request that met no matching row has enqueued
C7_FanOutComplete ==
    \A h \in 1..MaxHandlers :
        (handlers[h].pc = "done" /\ handlers[h].dups = 0) =>
            /\ handlers[h].inserted =
                   {<<k[4], t>> : k \in handlers[h].passed,
                                  t \in Range(ThreeServers) \ {handlers[h].source_server}}
            /\ handlers[h].enqueued = Cardinality(handlers[h].inserted)

\* C7: at or after the expiry of the entry for (P, user, item, E) a webhook
\* from P with E for the item is not suppressed, the entry is removed, and the
\* request enqueues one row per configured peer other than P when no matching
\* row is in the queue.
C7_Expiry ==
    /\ []C7_FanOutComplete
    /\ [][\A h \in 1..MaxHandlers :
             Started(h) =>
                 \A k \in DOMAIN sync_cooldowns :
                     (k \in handlers'[h].parsed /\ now >= sync_cooldowns[k]) =>
                         /\ k \in handlers'[h].passed
                         /\ k \notin DOMAIN sync_cooldowns']_vars

\* C7 witness: lan was written to, its entry has expired and is gone, and the
\* webhook from lan has enqueued a row for each of the two other peers.
C7_Witness ==
    LET k == CooldownKey("lan", "alice", <<"path", PathNew>>, "watched") IN
    /\ k \in DOMAIN last_write /\ now >= last_write[k] + SYNC_COOLDOWN_SECONDS
    /\ \E e \in BagToSet(sync_log) : e.success /\ e.target_server = "lan"
    /\ k \notin DOMAIN sync_cooldowns
    /\ handlers[1].pc = "done" /\ handlers[1].source_server = "lan"
    /\ k \in handlers[1].passed /\ handlers[1].enqueued = 2 /\ handlers[1].dups = 0

\* The step is one call of mark_event_failed on row id.
FailedCall(id) ==
    /\ id \in DOMAIN failures
    /\ failures'[id] = failures[id] + 1

\* The delays the backoff is to give: 20, 40, 80, 160, 300, 300, ...
ExpectedDelay(n) == IF n <= 4 THEN <<20, 40, 80, 160>>[n] ELSE 300

\* C8: a mark_event_failed that keeps the row sets next_retry_at to now + the
\* delay of the incremented retry_count: 20, 40, 80, 160, 300, 300, ...,
\* nondecreasing and never above 300.
C8_Backoff ==
    /\ [](\A n \in 1..MaxRetriesBound :
             ExpectedDelay(n) <= ExpectedDelay(n + 1) /\ ExpectedDelay(n) <= 300)
    /\ [][\A id \in DOMAIN failures :
             (FailedCall(id) /\ HasRow(id)') =>
                 /\ Row(id)'.retry_count = Row(id).retry_count + 1
                 /\ Row(id)'.next_retry_at = now + ExpectedDelay(Row(id)'.retry_count)]_vars

\* C8 witness: a sixth failure, after some time, scheduled with the capped delay.
C8_Witness ==
    \E r \in pending_events :
        r.retry_count = 6 /\ now > 0 /\ r.next_retry_at = now + 300 /\ failures[r.id] = 6

\* C9: a failing event is deleted at the failure that brings retry_count to
\* max_retries and not before: until then the row is pending with retry_count =
\* the failures so far and last_error set; at that failure the row is deleted
\* and exactly one sync_log entry, with success = false, is appended.
C9_DeletedAtMaxRetries ==
    /\ [](\A r \in pending_events :
             r.retry_count = failures[r.id] /\ r.retry_count < r.max_retries)
    /\ [][\A id \in DOMAIN failures :
             FailedCall(id) =>
                 IF failures'[id] = Row(id).max_retries
                 THEN /\ ~HasRow(id)'
                      /\ BagCardinality(sync_log') = BagCardinality(sync_log) + 1
                      /\ LogCount(sync_log', id, FALSE) = LogCount(sync_log, id, FALSE) + 1
                 ELSE /\ HasRow(id)'
                      /\ Row(id)'.status = "pending"
                      /\ Row(id)'.retry_count = failures'[id]
                      /\ Row(id)'.last_error = "Connection error"
                      /\ sync_log' = sync_log]_vars

\* C9 witness: the default max_retries: the fifth failure deleted the row and
\* left one failure entry.
C9_Witness ==
    \E id \in DOMAIN failures :
        /\ failures[id] = DEFAULT_MAX_RETRIES
        /\ ~HasRow(id)
        /\ api_call.op = "mark_event_failed" /\ api_call.id = id
        /\ LogCount(sync_log, id, FALSE) = 1 /\ LogCount(sync_log, id, TRUE) = 0

NotFoundMessages == {"Item not found", "Item not found (gave up)", "Item not found (attempt)"}

\* The step is the outcome of a not-found for the claimed task t.
NotFoundOutcome(t) ==
    \/ /\ HasRow(t.event.id)'
       /\ Row(t.event.id)' # Row(t.event.id)
       /\ Row(t.event.id)'.last_error \in NotFoundMessages
    \/ \E e \in BagToSet(sync_log') :
          /\ e.event_id = t.event.id /\ ~e.success
          /\ e.message[4] \in NotFoundMessages
          /\ CopiesIn(e, sync_log') > CopiesIn(e, sync_log)

InfinitePolicy(path) ==
    /\ get_path_policy(path) # None
    /\ get_path_policy(path)[1].absent_retry_count = -1

\* C10: with a longest-prefix policy of absent_retry_count = -1 no number of
\* not-found outcomes makes _handle_item_not_found fail: each one marks the
\* event waiting_for_item, and none fails the event or logs a failure.
C10_NeverGivesUp ==
    /\ [](\A n \in 0..(MaxNotFound + 2) :
             LET r == handle_item_not_found([item_path |-> PathNew, item_not_found_count |-> n])
             IN InfinitePolicy(PathNew) /\ r.success /\ IsWaitingMessage(r.message))
    /\ [][\A t \in tasks :
             (t.phase = "claimed" /\ InfinitePolicy(t.event.item_path) /\ NotFoundOutcome(t)) =>
                 /\ Row(t.event.id)'.status = "waiting_for_item"
                 /\ Row(t.event.id)'.item_not_found_count = Row(t.event.id).item_not_found_count + 1
                 /\ Row(t.event.id)'.retry_count = Row(t.event.id).retry_count
                 /\ LogCount(sync_log', t.event.id, FALSE) = LogCount(sync_log, t.event.id, FALSE)]_vars

\* C10 witness: a second consecutive not-found of one event under the -1 policy.
C10_Witness ==
    \E r \in pending_events :
        /\ InfinitePolicy(r.item_path)
        /\ r.status = "waiting_for_item"
        /\ r.item_not_found_count = 2
        /\ r.retry_count = 0

\* The path policy denies a retry: none matches, or absent_retry_count = 0.
DeniedPolicy(path) ==
    \/ get_path_policy(path) = None
    \/ get_path_policy(path)[1].absent_retry_count = 0

\* C11: a step that ends the processing of an event with item-not-found
\* leaves the retry_count of its row as it was, whether the policy makes the
\* event wait or fails it.
C11_NotFoundKeepsRetryCount ==
    [][\A t \in tasks :
          (t.phase = "claimed" /\ NotFoundOutcome(t) /\ HasRow(t.event.id)') =>
              Row(t.event.id)'.retry_count = Row(t.event.id).retry_count]_vars

\* C12: a not-found of an event whose path has no policy (an absent path
\* included) or a policy with absent_retry_count = 0 fails the event for good
\* at once: a failure entry is logged, the row is on its way out, and the row
\* is not rescheduled as pending or waiting_for_item.
C12_DeniedFailsAtOnce ==
    [][\A t \in tasks :
          (t.phase = "claimed" /\ NotFoundOutcome(t) /\ DeniedPolicy(t.event.item_path)) =>
              /\ LogCount(sync_log', t.event.id, FALSE) = LogCount(sync_log, t.event.id, FALSE) + 1
              /\ Row(t.event.id)' = Row(t.event.id)]_vars

\* The event types whose smart-sync comparison is an equality
SmartTypes == {"watched", "favorite", "likes", "rating", "audio_stream", "subtitle_stream"}

\* The value of the event's field in a record of the target
CurrentOf(event_type, ud) ==
    CASE event_type = "watched" -> Some(ud.Played)
      [] event_type = "favorite" -> Some(ud.IsFavorite)
      [] event_type = "likes" -> ud.Likes
      [] event_type = "rating" -> ud.Rating
      [] event_type = "audio_stream" -> ud.AudioStreamIndex
      [] event_type = "subtitle_stream" -> ud.SubtitleStreamIndex

\* The coroutine of t2 has just had its answer from get_user_data: a record
\* that holds the desired value of its event
ReadEqual(t2) ==
    /\ t2.phase \in {"called", "mutate"}
    /\ \E t \in tasks : t.event.id = t2.event.id /\ t.phase = "claimed"
    /\ t2.event.event_type \in SmartTypes
    /\ t2.got = "data"
    /\ CurrentOf(t2.event.event_type, t2.seen[1]) = Some(t2.event.event_data[2])

C14_PlayCountMonotonic ==
    [][\A k \in UserDataKeys : user_data'[k].PlayCount >= user_data[k].PlayCount]_vars

\* This step parses a PlaybackProgress webhook for the debounce key.
ProgressParsed(key) ==
    /\ key \in DOMAIN progress_seen'
    /\ key \in DOMAIN progress_seen => progress_seen'[key].n # progress_seen[key].n

\* A PROGRESS record was parsed for the key less than the window ago, in this
\* run of the process.
InWindow(key) ==
    /\ key \in DOMAIN progress_seen
    /\ progress_seen[key].yield_at # NoTime
    /\ progress_seen[key].yield_run = crashes
    /\ now - progress_seen[key].yield_at < PROGRESS_DEBOUNCE_SECONDS

\* A webhook that yields a PROGRESS record hands on one record per target,
\* with its own position_ticks.
C15_CarriesTicks ==
    [][\A key \in DOMAIN progress_seen' :
          (ProgressParsed(key) /\ progress_seen'[key].yielded) =>
              /\ handlers'[1].pc = "check"
              /\ Len(handlers'[1].todo) = 1
              /\ handlers'[1].todo[1].event_type = "progress"
              /\ handlers'[1].todo[1].data = <<"position_ticks", progress_seen'[key].ticks>>]_vars

\* C15: of two PlaybackProgress webhooks with the same (source peer, username,
\* item_id) parsed less than progress_debounce_seconds apart, the first yields
\* a PROGRESS record with its position_ticks and the second yields none.
C15_Debounce ==
    /\ C15_CarriesTicks
    /\ [][\A key \in DOMAIN progress_seen :
             (ProgressParsed(key)
                  /\ now - progress_seen[key].at < PROGRESS_DEBOUNCE_SECONDS) =>
                 /\ progress_seen[key].yielded
                 /\ ~progress_seen'[key].yielded]_vars

\* C15 as the code has it: a PlaybackProgress webhook yields no PROGRESS record
\* when one was yielded for its (source peer, username, item_id) less than
\* progress_debounce_seconds before in the same run of the process; otherwise
\* it yields one, with its own position_ticks, when its position is not zero,
\* and none when it is zero.  What was parsed for other keys plays no part.
C15_DebounceAmended ==
    /\ C15_CarriesTicks
    /\ [][\A key \in DOMAIN progress_seen' :
             ProgressParsed(key) =>
                 (progress_seen'[key].yielded <=>
                    (progress_seen'[key].ticks # 0 /\ ~InWindow(key)))]_vars

\* C15 witness: a second webhook for a key, with a position, 20 s after the
\* first one, yielded nothing; the queue holds the first one's position only.
C15_Witness ==
    \E key \in DOMAIN progress_seen :
        /\ progress_seen[key].n = 2 /\ progress_seen[key].at = 20
        /\ progress_seen[key].ticks = 2 /\ ~progress_seen[key].yielded
        /\ progress_seen[key].yield_at = 0 /\ progress_seen[key].yield_run = crashes
        /\ handlers[1].pc = "done" /\ handlers[1].parsed = {}
        /\ \E r \in pending_events :
               /\ r.event_type = "progress" /\ r.event_data = <<"position_ticks", 1>>
               /\ <<r.source_server, r.username, r.item_id>> = key
        /\ Cardinality(pending_events) = 1

\* C16: the identity key is path:<item_path> whenever a path is given,
\* whatever the provider ids; otherwise imdb:<id>, else tmdb:<id>, else
\* tvdb:<id>, by the first id given; it is empty iff none of the four is given.
C16_IdentityKey ==
    \A h \in 1..MaxHandlers :
        "payload" \in DOMAIN handlers[h] =>
            \A k \in handlers[h].parsed :
                LET x == handlers[h].payload
                    key == k[3]
                IN /\ x.item_path # <<>> => key = <<"path", x.item_path>>
                   /\ (x.item_path = <<>> /\ x.provider_imdb # "") =>
                          key = <<"imdb", x.provider_imdb>>
                   /\ (x.item_path = <<>> /\ x.provider_imdb = "" /\ x.provider_tmdb # "") =>
                          key = <<"tmdb", x.provider_tmdb>>
                   /\ (x.item_path = <<>> /\ x.provider_imdb = "" /\ x.provider_tmdb = ""
                            /\ x.provider_tvdb # "") =>
                          key = <<"tvdb", x.provider_tvdb>>
                   /\ key = <<>> <=> (x.item_path = <<>> /\ x.provider_imdb = ""
                                         /\ x.provider_tmdb = "" /\ x.provider_tvdb = "")

\* C16 witness: a webhook without path and IMDB id, with TMDB and TVDB ids,
\* was checked against the cooldowns under the key tmdb:<id>.
C16_Witness ==
    /\ "payload" \in DOMAIN handlers[1]
    /\ handlers[1].payload.item_path = <<>> /\ handlers[1].payload.provider_imdb = ""
    /\ handlers[1].payload.provider_tmdb = "12345"
    /\ handlers[1].payload.provider_tvdb = "67890"
    /\ \E k \in handlers[1].parsed : k[3] = <<"tmdb", "12345">>

\* The configured peers other than the source of the request
OtherPeers(h) == Range(ThreeServers) \ {handlers[h].source_server}

\* A non-terminal row with the dedup key of the pair the request is at
LiveRow(h) ==
    \E r \in pending_events :
        /\ r.event_type = handlers[h].todo[1].event_type
        /\ r.target_server = handlers[h].todo[1].target
        /\ r.username = handlers[h].payload.username
        /\ r.item_id = handlers[h].payload.item_id
        /\ r.status \in {"pending", "processing", "waiting_for_item"}

RowIds(tbl) == {r.id : r \in tbl}

\* C17: enqueue_events inserts one pending row for each record not in
\* cooldown and each configured peer other than the source, unless a
\* non-terminal row with the same dedup key exists when it looks; it returns
\* the number of rows it inserted; no row targets its own source; with an
\* empty queue, k records and n peers make k*(n-1) rows.
C17_FanOut ==
    /\ [](\A r \in pending_events : r.target_server # r.source_server)
    /\ [](\A h \in 1..MaxHandlers :
             handlers[h].pc = "done" =>
                 /\ handlers[h].inserted \subseteq
                        {<<k[4], t>> : k \in handlers[h].passed, t \in OtherPeers(h)}
                 /\ handlers[h].enqueued = Cardinality(handlers[h].inserted)
                 /\ handlers[h].enqueued + handlers[h].dups =
                        Cardinality(handlers[h].passed) * (Len(ThreeServers) - 1))
    /\ [](\A h \in 1..MaxHandlers :
             (handlers[h].pc = "done" /\ webhooks = 1) =>
                 /\ handlers[h].enqueued =
                        Cardinality(handlers[h].parsed) * (Len(ThreeServers) - 1)
                 /\ next_id - 1 = handlers[h].enqueued)
    /\ [][\A h \in 1..MaxHandlers :
             handlers[h].pc \in {"check", "insert"} =>
                 /\ handlers'[h].dups # handlers[h].dups =>
                        /\ LiveRow(h)
                        /\ handlers'[h].dups = handlers[h].dups + 1
                        /\ handlers'[h].enqueued = handlers[h].enqueued
                        /\ RowIds(pending_events') = RowIds(pending_events)
                 /\ (handlers[h].pc = "check" /\ handlers'[h].dups = handlers[h].dups
                         /\ handlers'[h] # handlers[h]) =>
                        ~LiveRow(h) /\ handlers'[h].pc = "insert"
                 /\ handlers'[h].enqueued # handlers[h].enqueued =>
                        /\ handlers'[h].enqueued = handlers[h].enqueued + 1
                        /\ \E r \in pending_events' :
                               /\ r.id \notin RowIds(pending_events)
                               /\ RowIds(pending_events') \ RowIds(pending_events) = {r.id}
                               /\ r.status = "pending"
                               /\ r.event_type = handlers[h].todo[1].event_type
                               /\ r.event_data = handlers[h].todo[1].data
                               /\ r.target_server = handlers[h].todo[1].target
                               /\ r.source_server = handlers[h].source_server]_vars
    /\ [][RowIds(pending_events') \subseteq RowIds(pending_events)
             \/ \E h \in 1..MaxHandlers :
                    /\ handlers[h].pc = "insert"
                    /\ handlers'[h].enqueued = handlers[h].enqueued + 1]_vars

\* C17 witness: a webhook from wan with two records has put four pending rows
\* into the empty queue, two for lan and two for backup, and returned 4.
C17_Witness ==
    /\ handlers[1].pc = "done" /\ handlers[1].source_server = "wan"
    /\ Cardinality(handlers[1].parsed) = 2
    /\ handlers[1].enqueued = 4 /\ handlers[1].dups = 0
    /\ webhooks = 1 /\ next_id = 5
    /\ Cardinality(pending_events) = 4
    /\ \A r \in pending_events : r.status = "pending" /\ r.target_server \in {"lan", "backup"}

\* Cases of the fan-out that the runs cover: a record held back by the
\* cooldown, and a pair skipped as a duplicate.
FanOutCooldownCase ==
    \E h \in 1..MaxHandlers :
        handlers[h].pc = "done" /\ handlers[h].passed # handlers[h].parsed
FanOutDuplicateCase ==
    \E h \in 1..MaxHandlers : handlers[h].pc = "done" /\ handlers[h].dups > 0

\* The events whose _sync_event is under way: process_one has entered
\* "async with semaphore" and has not left it.
InSyncEvent == {t \in tasks : t.phase \in {"mutate", "called", "result", "logged"}}

\* C18: at every moment at most max_concurrent (5) events are inside
\* _sync_event, over the pending batch and the waiting batch of every tick.
C18_AtMostMaxConcurrent ==
    /\ Cardinality(InSyncEvent) <= MAX_CONCURRENT
    /\ \A t \in tasks : t.origin = worker_pc

\* C18 witness: five events of a batch of six are inside _sync_event and the
\* sixth waits for the semaphore.
C18_Witness ==
    /\ Cardinality(tasks) = 6
    /\ Cardinality(InSyncEvent) = MAX_CONCURRENT
    /\ \E t \in tasks : t.phase = "claimed"

\* A case the runs cover: an event of the waiting batch inside _sync_event.
WaitingBatchCase == \E t \in InSyncEvent : t.origin = "waiting"

\* The step is a fetch; the rows it was to choose from
Fetched ==
    /\ api_call' # api_call
    /\ api_call'.op \in {"get_pending_events", "get_waiting_for_item_events"}
FetchedFrom ==
    {r \in pending_events :
        /\ r.status = (IF api_call'.op = "get_pending_events" THEN "pending"
                       ELSE "waiting_for_item")
        /\ (r.next_retry_at = NoTime \/ r.next_retry_at <= now)}

\* C19: get_pending_events and get_waiting_for_item_events return the eligible
\* rows in nondecreasing created_at order, rows enqueued earlier before rows
\* enqueued later, and with a limit L the L oldest of them.
C19_Fifo ==
    [][Fetched =>
        LET ret == api_call'.ret
            limit == api_call'.id
        IN /\ \A i \in DOMAIN ret : \E r \in FetchedFrom : r.id = ret[i]
           /\ \A i, j \in DOMAIN ret : i < j => Row(ret[i]).created_at <= Row(ret[j]).created_at
           /\ \A i, j \in DOMAIN ret : i < j => ret[i] < ret[j]
           /\ Len(ret) = (IF Cardinality(FetchedFrom) < limit
                          THEN Cardinality(FetchedFrom) ELSE limit)
           /\ \A r \in FetchedFrom :
                  (\A i \in DOMAIN ret : ret[i] # r.id) =>
                      \A i \in DOMAIN ret : ret[i] < r.id]_vars

\* The part of C19 that the code keeps: nondecreasing created_at, and no row
\* left out that was created in an earlier second than a row returned.
FetchByCreatedAt ==
    [][Fetched =>
        LET ret == api_call'.ret
            limit == api_call'.id
        IN /\ \A i \in DOMAIN ret : \E r \in FetchedFrom : r.id = ret[i]
           /\ \A i, j \in DOMAIN ret : i < j => Row(ret[i]).created_at <= Row(ret[j]).created_at
           /\ Len(ret) = (IF Cardinality(FetchedFrom) < limit
                          THEN Cardinality(FetchedFrom) ELSE limit)
           /\ \A r \in FetchedFrom :
                  (\A i \in DOMAIN ret : ret[i] # r.id) =>
                      \A i \in DOMAIN ret : Row(ret[i]).created_at <= r.created_at]_vars

\* The step is a call of reset_event_for_retry.
RetryCalled ==
    /\ api_call' # api_call
    /\ api_call'.op = "reset_event_for_retry"

\* C20: reset_event_for_retry(id) on a row with status failed sets status
\* pending, retry_count 0 and next_retry_at null and returns true; on a row in
\* another status, or an id without a row, it changes nothing and returns
\* false.
C20_ManualRetry ==
    [][RetryCalled =>
        LET id == api_call'.id IN
        IF \E r \in pending_events : r.id = id /\ r.status = "failed"
        THEN /\ api_call'.ret = TRUE
             /\ \A r \in pending_events :
                    IF r.id = id
                    THEN \E q \in pending_events' :
                            /\ q.id = id
                            /\ q.status = "pending" /\ q.retry_count = 0
                            /\ q.next_retry_at = NoTime
                            /\ [q EXCEPT !.status = r.status, !.retry_count = r.retry_count,
                                         !.next_retry_at = r.next_retry_at,
                                         !.updated_at = r.updated_at] = r
                    ELSE r \in pending_events'
             /\ Cardinality(pending_events') = Cardinality(pending_events)
        ELSE /\ api_call'.ret = FALSE
             /\ pending_events' = pending_events]_vars

\* C20 witness: a failed row that had been rescheduled once is pending again
\* with retry_count 0 and no next_retry_at, and the call has returned true.
C20_Witness ==
    /\ api_call.op = "reset_event_for_retry" /\ api_call.ret = TRUE
    /\ HasRow(api_call.id)
    /\ failures[api_call.id] = 1
    /\ Row(api_call.id).status = "pending"
    /\ Row(api_call.id).retry_count = 0 /\ Row(api_call.id).next_retry_at = NoTime

\* A case the runs cover: the call on a row that is not failed, and on an id
\* that no row has, has returned false.
RetryRefusedCase ==
    /\ api_call.op = "reset_event_for_retry" /\ api_call.ret = FALSE
    /\ HasRow(api_call.id) /\ Row(api_call.id).retry_count = 1
RetryNoRowCase ==
    /\ api_call.op = "reset_event_for_retry" /\ api_call.ret = FALSE
    /\ ~HasRow(api_call.id) /\ pending_events # {}

\* C21: user_mappings holds at most one row per (lowercased username, peer),
\* and a mapping stored under one letter case is what get_user_mapping
\* returns for the same name in any other letter case.
C21_OneMappingPerUser ==
    /\ \A a, b \in user_mappings :
           (lower(a.username) = lower(b.username) /\ a.server_name = b.server_name)
               => a = b
    /\ \A m \in user_mappings : \A u \in MappingNames :
           lower(u) = lower(m.username)
               => get_user_mapping(user_mappings, u, m.server_name) = {m}

\* C22: at any time there is at most one _worker_loop task, also when calls
\* of start_worker overlap at their suspensions; a call of start_worker on a
\* running engine changes nothing; when stop_worker returns, _running is
\* false and no worker task is left.
C22_OneWorker ==
    /\ Cardinality(worker_tasks.loops) <= 1
    /\ (\A c \in Callers : worker_tasks.pc[c].at = "idle") /\ ~running
           => worker_tasks.loops = {} /\ worker_tasks.worker_task = 0

\* C23: a webhook that target P sends because of the worker's own write is
\* never enqueued, in every interleaving: a request from P that is handled
\* after the mutation has reached P and before _sync_event has recorded the
\* cooldown passes nothing for the event type, user and item of that write.
C23_NoEchoEnqueued ==
    [][\A h \in 1..MaxHandlers :
          Started(h) =>
              \A t \in tasks :
                  (t.phase = "called" /\ t.wrote
                      /\ handlers'[h].source_server = t.event.target_server)
                      => PayloadKey(t.event.target_server, t.event, t.event.event_type)
                             \notin handlers'[h].passed]_vars

\* The longest-prefix policy of the path allows a bounded number of retries.
BoundedPolicy(path) ==
    /\ get_path_policy(path) # None
    /\ get_path_policy(path)[1].absent_retry_count > 0

\* C24: under a policy with a bounded absent_retry_count N > 0 the not-found
\* attempts before the N-th put the event into waiting_for_item, and the N-th
\* fails it for good: a failure entry is logged, the row is on its way out and
\* is not rescheduled, so the item is looked up at most N times.
C24_BoundedGivesUp ==
    [][\A t \in tasks :
          (t.phase = "claimed" /\ NotFoundOutcome(t) /\ BoundedPolicy(t.event.item_path)) =>
              IF Row(t.event.id).item_not_found_count + 1
                     < get_path_policy(t.event.item_path)[1].absent_retry_count
              THEN /\ Row(t.event.id)'.status = "waiting_for_item"
                   /\ Row(t.event.id)'.item_not_found_count
                          = Row(t.event.id).item_not_found_count + 1
              ELSE /\ LogCount(sync_log', t.event.id, FALSE)
                          = LogCount(sync_log, t.event.id, FALSE) + 1
                   /\ Row(t.event.id)' = Row(t.event.id)]_vars

\* The requests of the attempt that were answered with a 5xx status or failed
\* in transport
FaultsOf(t) == {c \in CallsOf(t) : c[2] \in {"http_5xx", "transport_error"}}

\* The step is mark_event_failed's first commit for the row of t: the retry
\* (pending, retry_count + 1) or the failure entry of the last retry
MarkedFailed(t) ==
    \/ /\ HasRow(t.event.id)'
       /\ Row(t.event.id)'.status = "pending"
       /\ Row(t.event.id)'.retry_count = Row(t.event.id).retry_count + 1
    \/ /\ LogCount(sync_log', t.event.id, FALSE) = LogCount(sync_log, t.event.id, FALSE) + 1
       /\ Row(t.event.id)' = Row(t.event.id)

\* C25: an attempt in which the target answered a request (user lookup, item
\* by cached id, library refresh, provider-id search, mutation) with a 5xx
\* status or failed in transport ends in mark_event_failed, and not as
\* item-not-found, waiting_for_item or success.
C25_FaultIsTransient ==
    [][\A t \in tasks :
          (t.phase = "claimed" /\ StepOf(t) = "return" /\ FaultsOf(t) # {} /\ t \notin tasks')
              => MarkedFailed(t)]_vars

\* C26: get_pending_events and get_waiting_for_item_events return a row only
\* if its status is pending, respectively waiting_for_item, and its
\* next_retry_at is NULL or not after now; a row in processing is returned by
\* neither, so no attempt starts before the retry time.
C26_NotBeforeRetryTime ==
    [][Fetched =>
        \A i \in DOMAIN api_call'.ret :
            LET r == Row(api_call'.ret[i])
            IN /\ r.status # "processing"
               /\ api_call'.op = "get_pending_events" => r.status = "pending"
               /\ api_call'.op = "get_waiting_for_item_events" => r.status = "waiting_for_item"
               /\ (r.next_retry_at # NoTime => r.next_retry_at <= now)]_vars

\* C26 witness: a fetch of pending rows returned a retry that had come due and
\* left out a retry that was not due yet.
C26_Witness ==
    /\ api_call.op = "get_pending_events"
    /\ \E i \in DOMAIN api_call.ret :
           HasRow(api_call.ret[i]) /\ Row(api_call.ret[i]).next_retry_at \notin {NoTime}
               /\ Row(api_call.ret[i]).next_retry_at <= now
    /\ \E r \in pending_events :
           /\ r.status = "pending" /\ r.next_retry_at > now
           /\ \A i \in DOMAIN api_call.ret : api_call.ret[i] # r.id

\* The requests the attempt of t has sent to the target
RequestsOf(t) == {c[1] : c \in CallsOf(t)}

\* The user of t has a mapping for the target, under whatever spelling
HasMapping(t) ==
    \E m \in user_mappings : /\ lower(m.username) = lower(t.event.username)
                             /\ m.server_name = t.event.target_server

\* The part of C27 about a user the target does not have: the attempt asks
\* for the users and nothing else, and ends in mark_event_failed.
UserNotFoundFails ==
    [][\A t \in tasks :
          (t.phase = "claimed" /\ StepOf(t) = "return" /\ t.resp = "no_user"
              /\ t \notin tasks') =>
                  /\ RequestsOf(t) = {"get_users"}
                  /\ MarkedFailed(t)]_vars

\* C27: without a mapping and without such a user on the target (names
\* compared without regard to case) an attempt fails with 'user not found',
\* counted against retry_count, and sends no item lookup and no mutation;
\* when the target has the user the mapping is stored, and an event whose
\* (user, peer) has a mapping does not ask the target for its users.
C27_UserLookup ==
    [][\A t \in tasks :
          /\ (t.phase = "claimed" /\ StepOf(t) = "return" /\ t.resp = "no_user"
                 /\ t \notin tasks') =>
                     (RequestsOf(t) = {"get_users"} /\ MarkedFailed(t))
          /\ (StepOf(t) = "start" /\ t \notin tasks') =>
                 \A n \in tasks' \ tasks :
                     /\ HasMapping(t) => "get_users" \notin RequestsOf(n)
                     /\ <<"get_users", "has_user">> \in CallsOf(n) =>
                            get_user_mapping(user_mappings', t.event.username,
                                             t.event.target_server) # {}]_vars

\* C28: every row that enqueue_events creates carries the configured
\* sync.max_retries, so that an event is failed for good after that many
\* failed attempts.
C28_ConfiguredMaxRetries ==
    \A r \in pending_events : r.max_retries = sync_config.max_retries

\* The item_path_cache row for the target and path of t
CacheRow(cache, t) == get_cached_item_id(cache, t.event.target_server, t.event.item_path)

\* C29: when the mutation of an attempt that took the item id from
\* item_path_cache is answered with 404, the attempt leaves no cache row for
\* (target peer, item_path), and the event is failed as a retry
\* (mark_event_failed), not moved to waiting_for_item.
C29_StaleIdInvalidated ==
    [][\A t \in tasks :
          (t.phase = "claimed" /\ StepOf(t) = "return" /\ t \notin tasks'
              /\ "answer" \in DOMAIN t /\ t.answer = "http_404" /\ t.from_cache) =>
                  /\ CacheRow(item_path_cache', t) = {}
                  /\ MarkedFailed(t)]_vars

\* The coroutines that run _do_refresh_cache on a peer
Refreshing(server) ==
    {t \in tasks : StepOf(t) = "refreshing" /\ t.event.target_server = server}

\* The coroutine of t after the step
After(t) == {u \in tasks' : u.event.id = t.event.id}

\* t is about to call _refresh_cache_and_find
EntersRefresh(t) ==
    \/ StepOf(t) = "lock_check"
    \/ StepOf(t) = "find" /\ t.event.item_path # NoPath /\ CacheRow(item_path_cache, t) = {}

\* C30: on each peer at most one coroutine refreshes the cache at a time, and
\* it holds the lock of the peer.  A call of _refresh_cache_and_find that
\* finds the lock held waits; after the release it reads the cache again and
\* comes back with the cached item or with None (or the GET of the cached id
\* raises a transport error), and it sends no library request of its own.  A
\* call that finds the lock of its peer free refreshes at once, whatever the
\* locks of the other peers.
C30_OneRefreshPerPeer ==
    /\ [](\A s \in Servers :
             /\ Cardinality(Refreshing(s)) <= 1
             /\ Refreshing(s) # {} => cache_refresh_locks[s].locked)
    /\ [][\A t \in tasks : t \notin tasks' =>
             LET lock == cache_refresh_locks[t.event.target_server]
             IN /\ (EntersRefresh(t) /\ lock.locked) =>
                       \E u \in After(t) : StepOf(u) = "wait" /\ CallsOf(u) = CallsOf(t)
                /\ (EntersRefresh(t) /\ lock = FreeLock) =>
                       \E u \in After(t) : StepOf(u) = "refreshing"
                /\ StepOf(t) = "wait" =>
                       /\ ~lock.locked
                       /\ \E u \in After(t) : StepOf(u) = "recheck" /\ CallsOf(u) = CallsOf(t)
                /\ StepOf(t) = "recheck" =>
                       \E u \in After(t) :
                           /\ \A c \in CallsOf(u) \ CallsOf(t) : c[1] = "get_item"
                           /\ \/ /\ StepOf(u) = "execute" /\ u.from_cache
                                 /\ CacheRow(item_path_cache, t) # {}
                              \/ StepOf(u) = "provider"
                              \/ /\ StepOf(u) = "return" /\ u.resp = "error"
                                 /\ <<"get_item", "transport_error">> \in CallsOf(u)]_vars

\* lan has been refreshed and the coroutine that waited for it is about to
\* read the cache again, while backup is being refreshed with a waiter queued
C30_Witness ==
    \E a, b, c \in tasks :
        /\ a.event.target_server = "lan" /\ StepOf(a) = "recheck"
        /\ CacheRow(item_path_cache, a) # {}
        /\ b.event.target_server = "backup" /\ StepOf(b) = "refreshing"
        /\ c.event.target_server = "backup" /\ StepOf(c) = "wait"

\* C31: a PROGRESS event whose event_data carries position_ticks is never
\* skipped: whatever get_user_data answered and whatever position the target
\* has, _execute_sync goes on to update_playback_progress with the position
\* of the event, and the call the peer accepts leaves the target at it.
C31_ProgressNeverSkipped ==
    [][\A t \in tasks :
          (t.event.event_type = "progress" /\ t \notin tasks'
              /\ EventValue(t.event.event_data, "position_ticks") # None) =>
              LET position_ticks == t.event.event_data[2]
                  key == PeerKey(t.event.target_server, t.event.username, t.event.item_path)
              IN /\ t.phase = "claimed" =>
                        \E u \in tasks' :
                            /\ u.event.id = t.event.id /\ u.phase = "mutate"
                            /\ u.call # None
                            /\ u.call[1].func = "update_playback_progress"
                            /\ u.call[1].arg = Some(position_ticks)
                 /\ (t.phase = "mutate" /\ user_data' # user_data) =>
                        user_data'[key].PlaybackPositionTicks = position_ticks]_vars

\* update_playback_progress is about to be sent for a position the target
\* was seen to have already, and for one behind the target's
C31_Witness ==
    \E t \in tasks :
        /\ t.event.event_type = "progress" /\ t.phase = "mutate"
        /\ t.seen # None
        /\ t.seen[1].PlaybackPositionTicks >= t.event.event_data[2]
        /\ t.call[1].arg = Some(t.event.event_data[2])

\* A processing row whose updated_at is more than m minutes before now
IsStale(r, m) == r.status = "processing" /\ now - r.updated_at > 60 * m

\* C32: reset_stale_processing(m) sets to pending exactly the processing rows
\* whose updated_at is more than m minutes in the past and returns their
\* number; every other row is left as it was, and no row is added or removed.
C32_ResetsExactlyStale ==
    [][(api_call' # api_call /\ api_call'.op = "reset_stale_processing") =>
          LET m == api_call'.id
          IN /\ \A r \in pending_events :
                    IF IsStale(r, m)
                    THEN [r EXCEPT !.status = "pending", !.updated_at = now] \in pending_events'
                    ELSE r \in pending_events'
             /\ Cardinality(pending_events') = Cardinality(pending_events)
             /\ api_call'.ret = Cardinality({r \in pending_events : IsStale(r, m)})]_vars

\* reset_stale_processing has just reset one row and left alone a processing
\* row that is not old enough
C32_Witness ==
    /\ api_call.op = "reset_stale_processing"
    /\ api_call.ret = 1
    /\ \E r \in pending_events : r.status = "processing"
    /\ \E r \in pending_events : r.status = "pending" /\ r.updated_at = now /\ r.created_at < now

\* C33: with sync.dry_run set the worker sends no state-changing call to a
\* peer, whatever the events in the queue: no coroutine gets as far as the
\* call and the UserData of the target stays as it was; an event for which a
\* call was determined leaves _execute_sync with success and the synced_value
\* of that call, and mark_event_completed logs it as a success with that value.
C33_DryRunSendsNothing ==
    /\ [](sync_config.dry_run =>
             /\ \A t \in tasks : t.phase # "mutate"
             /\ user_data = [k \in UserDataKeys |-> FreshUserData])
    /\ [][sync_config.dry_run =>
             \A t \in tasks : t \notin tasks' =>
                 LET e == t.event
                     call == sync_call(e.event_type, e.event_data)
                 IN /\ (t.phase = "claimed" /\ call # None) =>
                           \E u \in tasks' :
                               /\ u.event.id = e.id /\ u.phase = "called"
                               /\ u.result.success
                               /\ \/ u.result.synced_value = Some(call[1].synced_value)
                                  \/ /\ u.seen # None
                                     /\ u.result.synced_value =
                                            smart_check(e.event_type, u.seen[1], e.event_data)
                                     /\ u.result.synced_value # None
                    /\ t.phase = "called" =>
                           /\ pending_events' = pending_events
                           /\ sync_log' = log_sync(sync_log,
                                  LogEntry(Row(e.id), TRUE, "Synced successfully",
                                           t.result.synced_value))]_vars

\* In dry-run mode an event that the target does not have yet (Played true on
\* an unplayed item) has been logged as a success with synced_value played=True
C33_Witness ==
    /\ sync_config.dry_run
    /\ \E t \in tasks :
           /\ t.phase = "logged" /\ t.event.event_type = "watched"
           /\ t.event.event_data[2] = TRUE
           /\ t.result.synced_value = Some(<<"played", TRUE>>)
           /\ user_data[PeerKey("lan", "alice", PathNew)].Played = FALSE

\* C34: an attempt that the smart-sync check ended without a call leaves
\* _sync_cooldowns as it was; a cooldown entry is written for the key
\* (target, user, item identity, event type) of an event only when its call
\* was sent to the target and accepted.
C34_SkipLeavesCooldown ==
    [][\A t \in tasks :
          (t.phase = "called" /\ t \notin tasks') =>
              IF t.call = None
              THEN sync_cooldowns' = sync_cooldowns
              ELSE \A k \in DOMAIN sync_cooldowns' :
                       (k \notin DOMAIN sync_cooldowns \/ sync_cooldowns'[k] # sync_cooldowns[k])
                           => k = PayloadKey(t.event.target_server, t.event, t.event.event_type)]_vars

\* The item identity of a payload or row
IdentityOf(x) ==
    get_item_identity_key(x.item_path, x.provider_imdb, x.provider_tmdb, x.provider_tvdb)

\* C35: _set_cooldown for (peer, user, item identity, event type) makes
\* _is_in_cooldown true for that key and leaves its result as it was (false
\* where nothing was set) for every key that differs in peer, user, item
\* identity or event type; for an item without identity _set_cooldown changes
\* nothing and _is_in_cooldown is false.
C35_CooldownPerKey ==
    /\ [](\A server \in CooldownServers, x \in CooldownItems, event_type \in CooldownTypes :
             IdentityOf(x) = <<>> => ~is_in_cooldown(sync_cooldowns, server, x, event_type, now))
    /\ [][(api_call'.flip # api_call.flip /\ api_call'.op = "set_cooldown") =>
             LET P == api_call'.id[1]
                 item == api_call'.id[2]
                 E == api_call'.id[3]
             IN IF IdentityOf(item) = <<>>
                THEN sync_cooldowns' = sync_cooldowns
                ELSE \A server \in CooldownServers, x \in CooldownItems,
                        event_type \in CooldownTypes :
                         IF /\ server = P /\ x.username = item.username
                            /\ IdentityOf(x) = IdentityOf(item) /\ event_type = E
                         THEN is_in_cooldown(sync_cooldowns', server, x, event_type, now)
                         ELSE is_in_cooldown(sync_cooldowns', server, x, event_type, now)
                                  = is_in_cooldown(sync_cooldowns, server, x, event_type, now)]_vars

\* The cooldown (lan, alice, path, watched) has just been set: it holds, and
\* none holds for the other peer, the other user, the IMDB identity or the
\* other event type
C35_Witness ==
    LET item == [BasePayload("wan", "alice", PathNew) EXCEPT !.provider_imdb = "tt1234567"]
        other == [BasePayload("wan", "alice", NoPath) EXCEPT !.provider_imdb = "tt1234567"]
        bob == [BasePayload("wan", "bob", PathNew) EXCEPT !.provider_imdb = "tt1234567"]
    IN /\ api_call.op = "set_cooldown"
       /\ api_call.id = <<"lan", item, "watched">>
       /\ is_in_cooldown(sync_cooldowns, "lan", item, "watched", now)
       /\ ~is_in_cooldown(sync_cooldowns, "wan", item, "watched", now)
       /\ ~is_in_cooldown(sync_cooldowns, "lan", bob, "watched", now)
       /\ ~is_in_cooldown(sync_cooldowns, "lan", other, "watched", now)
       /\ ~is_in_cooldown(sync_cooldowns, "lan", item, "favorite", now)

\* ---------------------------------------------------------------- feature flags

\* Config.sync with every combination of the eight feature flags
FlagConfigs ==
    {[SyncConfig EXCEPT !.playback_progress = f[1], !.watched_status = f[2],
                        !.favorites = f[3], !.likes = f[4], !.play_count = f[5],
                        !.last_played_date = f[6], !.audio_stream = f[7],
                        !.subtitle_stream = f[8]] : f \in [1..8 -> BOOLEAN]}

\* A UserDataSaved webhook that carries every field, under each save reason,
\* a PlaybackStop that played to completion and a PlaybackProgress
FlagPayloads ==
    {[BasePayload("wan", "alice", PathNew) EXCEPT
         !.event = "UserDataSaved", !.save_reason = reason,
         !.is_played = Some(TRUE), !.is_favorite = Some(TRUE), !.likes = Some(TRUE),
         !.play_count = Some(1), !.last_played_date = Some(<<1, 0>>),
         !.audio_stream_index = Some(1), !.subtitle_stream_index = Some(1),
         !.playback_position_ticks = 600000000, !.played_to_completion = TRUE] :
        reason \in {"Import", "TogglePlayed", ""}}
    \cup {[BasePayload("wan", "alice", PathNew) EXCEPT
              !.event = "PlaybackStop", !.played_to_completion = TRUE,
              !.save_reason = "Import"],
          [BasePayload("wan", "alice", PathNew) EXCEPT
              !.event = "PlaybackProgress", !.playback_position_ticks = 600000000]}

\* The config attribute that _parse_webhook_to_event_data reads before it
\* appends a record of the event type
FlagOf(config, event_type) ==
    CASE event_type = "progress" -> config.playback_progress
      [] event_type = "watched" -> config.watched_status
      [] event_type = "favorite" -> config.favorites
      [] event_type = "likes" -> config.likes
      [] event_type = "play_count" -> config.play_count
      [] event_type = "last_played" -> config.last_played_date
      [] event_type = "audio_stream" -> config.audio_stream
      [] event_type = "subtitle_stream" -> config.subtitle_stream
      [] OTHER -> FALSE

\* One request at a time on /webhook/wan of a process that runs with some
\* combination of the flags; the worker sleeps
FlagsNext ==
    \/ StartWorker(Servers)
    \/ \E payload \in FlagPayloads : ReceiveWebhook(1, TwoServers, "wan", payload)
    \/ DedupCheck(1)
    \/ Insert(1)

FlagsInit == \E config \in FlagConfigs : InitWith(config)

FlagsSpec == FlagsInit /\ [][FlagsNext]_vars

IsImport(payload) == payload.event = "UserDataSaved" /\ payload.save_reason = "Import"

\* C36: a UserDataSaved webhook with save_reason "Import" yields no record and
\* no row under any combination of the feature flags, whatever it carries: the
\* request is over at once with nothing parsed, nothing enqueued and the
\* queue as it was.  And no record and no row of the queue ever has an event
\* type whose feature flag is off.
C36_ImportAndFlags ==
    /\ [](/\ \A r \in pending_events : FlagOf(sync_config, r.event_type)
          /\ \A h \in DOMAIN handlers :
                handlers[h].pc \in {"check", "insert"} =>
                    \A i \in DOMAIN handlers[h].todo :
                        FlagOf(sync_config, handlers[h].todo[i].event_type))
    /\ [][\A payload \in FlagPayloads :
              ReceiveWebhook(1, TwoServers, "wan", payload) =>
                  /\ \A key \in handlers'[1].parsed : FlagOf(sync_config, key[4])
                  /\ IsImport(payload) =>
                        /\ handlers'[1].pc = "done"
                        /\ handlers'[1].parsed = {}
                        /\ handlers'[1].enqueued = 0
                        /\ pending_events' = pending_events]_vars

\* An Import webhook that carries every field has been received by a process
\* with every flag on and left nothing, and the same fields under another save
\* reason have been enqueued by it
C36_Witness ==
    /\ sync_config = SyncConfig
    /\ webhooks = 2
    /\ handlers[1].pc = "done"
    /\ handlers[1].parsed = {}
    /\ Cardinality(pending_events) = 7

\* C37: a success entry is written to the sync log for an event only by an
\* attempt whose mutation the target accepted or whose value the target
\* already held (the attempt stands after the answer of the target, with the
\* result "Synced successfully" of _execute_sync); never by an attempt that
\* did not find the item on the target.
C37_SuccessMeansSynced ==
    [][\A t \in tasks :
          LogCount(sync_log', t.event.id, TRUE) > LogCount(sync_log, t.event.id, TRUE) =>
              /\ t.phase = "called"
              /\ t.result.success
              /\ ~IsWaitingMessage(t.result.message)]_vars

\* ---------------------------------------------------------------- one claim per row

\* The clock may jump past the stale threshold of reset_stale_processing
\* while coroutines of a batch are between two awaits
ClaimSteps == {300, 60 * STALE_MINUTES + 1}

\* The worker loop over both batches with peers that answer, lack the item or
\* fail, a process that may be killed and restarted, and a clock that passes
\* the retry delay and the stale threshold at any point
ClaimNext ==
    \/ \E d \in ClaimSteps : Tick(d)
    \/ StartWorker(Servers)
    \/ Crash
    \/ \E p \in WatchedPayloads("wan", {PathNew}) : ReceiveWebhook(1, TwoServers, "wan", p)
    \/ DedupCheck(1)
    \/ Insert(1)
    \/ WorkerWake
    \/ StartWaitingBatch
    \/ FinishTick
    \/ \E t \in tasks, resp \in PeerResponses : TaskPeerCall(t, resp)
    \/ \E t \in tasks : TaskResume(t)
    \/ \E t \in tasks : TaskMark(t)
    \/ \E t \in tasks : TaskDelete(t)

ClaimSpec == Init /\ [][ClaimNext]_vars

\* C38: no row is in two _sync_event calls at once.  Two process_one
\* coroutines never hold the same row; a row whose coroutine has not reached
\* its transition yet is there with status processing (nothing reset it); and
\* a row is marked processing only while no coroutine holds it, in the
\* pending batch, in the waiting batch and after reset_stale_processing.
C38_OneTaskPerRow ==
    /\ [](/\ \A t1, t2 \in tasks : t1.event.id = t2.event.id => t1 = t2
          /\ \A t \in tasks : t.phase = "claimed" =>
                 HasRow(t.event.id) /\ Row(t.event.id).status = "processing")
    /\ [][\A r \in pending_events' :
              (/\ r.status = "processing"
               /\ \A q \in pending_events : q.id = r.id => q.status # "processing") =>
                  ~\E t \in tasks : t.event.id = r.id]_vars

\* A coroutine that has not reached its transition holds a row that has been
\* processing for longer than the stale threshold
C38_Witness ==
    \E t \in tasks :
        /\ t.phase = "claimed"
        /\ HasRow(t.event.id)
        /\ IsStale(Row(t.event.id), STALE_MINUTES)

\* ---------------------------------------------------------------- a stream of progress

\* PlaybackProgress webhooks of one user for one item, with and without a position
StreamPayloads ==
    {[BasePayload("wan", "alice", PathNew) EXCEPT
         !.event = "PlaybackProgress", !.playback_position_ticks = k] : k \in {0, 1, 2}}

\* A stream of PlaybackProgress webhooks for one key, one request at a time,
\* 20 s or a whole window apart, in a process that may be killed and restarted
StreamNext ==
    \/ \E d \in DebounceSteps : TickUpTo(MaxStream, d)
    \/ StartWorker(Servers)
    \/ Crash
    \/ \E p \in StreamPayloads : ReceiveWebhookUpTo(MaxStream, 1, TwoServers, "wan", p)
    \/ DedupCheck(1)
    \/ Insert(1)

StreamSpec == Init /\ [][StreamNext]_vars

\* The window of a key starts when a PROGRESS record is parsed for it, and at
\* no other time: _last_progress_sync holds for a key the time of the last
\* record parsed for it in this run, and a webhook that yields no record
\* leaves it as it was.
C39_WindowStartsAtRecord ==
    /\ [](\A key \in DOMAIN last_progress_sync :
             /\ key \in DOMAIN progress_seen
             /\ progress_seen[key].yield_run = crashes
             /\ last_progress_sync[key] = progress_seen[key].yield_at)
    /\ [][\A key \in DOMAIN progress_seen' :
             (ProgressParsed(key) /\ ~progress_seen'[key].yielded) =>
                 last_progress_sync' = last_progress_sync]_vars

\* C39: the debounce window of a key starts only when a PROGRESS record is
\* produced and is not extended by webhooks that were debounced away; a
\* PlaybackProgress webhook that arrives progress_debounce_seconds or more
\* after the last record produced for its key yields a record.
C39_Window ==
    /\ C39_WindowStartsAtRecord
    /\ [][\A key \in DOMAIN progress_seen :
             (/\ ProgressParsed(key)
              /\ progress_seen[key].yield_at # NoTime
              /\ now - progress_seen[key].yield_at >= PROGRESS_DEBOUNCE_SECONDS) =>
                 progress_seen'[key].yielded]_vars

\* C39 as the code has it: the same, for a webhook that carries a position
\* other than zero; one without a position yields nothing whenever it arrives.
C39_WindowAmended ==
    /\ C39_WindowStartsAtRecord
    /\ [][\A key \in DOMAIN progress_seen :
             (/\ ProgressParsed(key)
              /\ progress_seen[key].yield_at # NoTime
              /\ now - progress_seen[key].yield_at >= PROGRESS_DEBOUNCE_SECONDS) =>
                 (progress_seen'[key].yielded <=> progress_seen'[key].ticks # 0)]_vars

\* The third webhook of a stream yielded a record 40 s after the first one
\* did, the one in between, 20 s after the first, having been debounced away
C39_Witness ==
    \E key \in DOMAIN progress_seen :
        /\ crashes = 0
        /\ progress_seen[key].n = 3
        /\ progress_seen[key].at = 40
        /\ progress_seen[key].yielded
        /\ Cardinality({r \in pending_events : r.event_type = "progress"}) = 1
        /\ last_progress_sync[key] = 40

\* ---------------------------------------------------------------- the failed status

\* A caller of every operation of the queue API that writes pending_events,
\* and of the two that read the failed rows
FailedNext ==
    \/ \E p \in WatchedPayloads("wan", {PathNew}) : p.is_played = Some(TRUE) /\ QAdd(p, "lan")
    \/ \E id \in QueueIds : QMarkProcessing(id)
    \/ \E id \in QueueIds : QMarkCompleted(id)
    \/ \E id \in QueueIds : QMarkFailed(id, "Connection error")
    \/ \E id \in QueueIds : QMarkWaiting(id, path_sync_policy[2])
    \/ \E m \in StaleMinutes : QResetStale(m)
    \/ QResetAll
    \/ \E id \in QueueIds : QResetForRetry(id)
    \/ QGetFailedCount
    \/ QGetFailedEvents(1)
    \/ \E d \in TimeSteps : Tick(d)

FailedSpec == Init /\ [][FailedNext]_vars

====
